---- MODULE Spec2Model ----
(***************************************************************************)
(* The asynchronous job pipeline of jpeg2avi-js: the job registry          *)
(* (JobService), the work queue on the store (RedisService lpush/brpop),   *)
(* the worker loop and the per-job conversion pipeline (ConversionWorker), *)
(* and the HTTP producer path (POST /convert).                             *)
(*                                                                         *)
(* Granularity.  Node runs one macrotask and then every microtask it       *)
(* queued before it looks at I/O again, so the code between two awaits of  *)
(* real I/O is one step.  A step of this model is: one awaited store       *)
(* command or codec call completes, and the continuation runs up to the    *)
(* next awaited command or call.  A pc names the command or call that is   *)
(* in flight.  An await of a promise that is already rejected (the         *)
(* isConnected() guards of JobService) is no I/O and ends no step.         *)
(***************************************************************************)
EXTENDS Integers, Sequences, FiniteSets, TLC

\* Number of POST /convert requests; request r allocates job id r (uuidv4: fresh).
MaxJobs == 2

\* Server processes (replicas of server.js), each with its own RedisService
\* singleton (one `connected` flag) and its own ConversionWorker.
Procs == {"p1", "p2"}

Reqs == 1..MaxJobs

keyPrefix == "jpeg2avif:job:"
queueKey == "jpeg2avif:queue"

VARIABLES
    store,      \* the store's keyspace: key -> serialized value (absent keys are not in DOMAIN)
    queue,      \* the list under queueKey: head is the left end
    connected,  \* RedisService.connected of each process
    proc,       \* each process: "init", "up", "exited"
    worker,     \* each process's ConversionWorker and the position of its loop
    req,        \* each POST /convert request and the position of its handler
    pushOrder,  \* history: entries in the order their lpush was executed by the store
    popOrder,   \* history: entries in the order brpop took them off the list
    delivered,  \* history: the entries brpop returned to each process's worker
    written,    \* history: ids whose record has been stored at least once
    writes,     \* history: how many updateJobStatus writes the store executed on each id
    lostAck,    \* history: ids with a terminal write executed whose answer was lost
    api,        \* a direct caller of JobService (the registry's contract), idle in the service
    uploads,    \* the original metadata of the JPEG each request uploads
    files,      \* each process's temp directory: file name -> the metadata in the file
    late,       \* each process's exiftool writes that timed out and are still running
    now,        \* the clock every `new Date()` reads, in seconds
    deleted,    \* history: ids whose deleteJob returned
    codec,      \* one upload and its variants as bytes, through the base64 conversions
    instance    \* one ConversionWorker under start() and stop() calls: its flag and its loops

vars == <<store, queue, connected, proc, worker, req, pushOrder, popOrder, delivered,
          written, writes, lostAck, api, uploads, files, late, now, deleted, codec,
          instance>>

----------------------------------------------------------------------------
(* Values *)

\* JSON.stringify / JSON.parse as RedisService applies them: the store holds text.
JSONstringify(v) == <<"json", v>>
JSONparse(s) == s[2]

JobKey(jobId) == <<keyPrefix, jobId>>

\* { ...job, ...updates }: the keys of both, updates winning.
Spread(job, updates) ==
    [k \in (DOMAIN job) \cup (DOMAIN updates) |->
        IF k \in DOMAIN updates THEN updates[k] ELSE job[k]]

\* The jobData the POST /convert handler passes to createJob.
HandlerJobData == [originalName |-> "name", imageData |-> "b64"]

\* The jobData a caller of createJob can pass: the handler's, and objects that
\* have a status or an id key of their own.
JobDatas ==
    {HandlerJobData,
     [originalName |-> "name", imageData |-> "b64", status |-> "completed"],
     [originalName |-> "name", imageData |-> "b64", id |-> 0]}

\* const job = { id: jobId, status: 'queued', createdAt, updatedAt, ...jobData }
CreatedJob(jobId, jobData) ==
    Spread([id |-> jobId, status |-> "queued", createdAt |-> now, updatedAt |-> now], jobData)

\* The job record createJob builds from the POST /convert handler's jobData.
NewJob(jobId) == CreatedJob(jobId, HandlerJobData)

----------------------------------------------------------------------------
(* Image metadata (exiftool tags) and the temp files of a job *)

\* obj.key in JavaScript: undefined when the object has no such key.
Undefined == "undefined"
Prop(obj, key) == IF key \in DOMAIN obj THEN obj[key] ELSE Undefined

\* A tag value is "v" (a non-empty string, a non-zero number) or "zero" (the
\* number 0, as the latitude of a point on the equator).
Truthy(v) == v \notin {Undefined, "zero"}

TimestampKeys == {"DateTimeOriginal", "DateTime", "CreateDate"}
GPSKeys == {"GPSLatitude", "GPSLongitude", "GPSLatitudeRef", "GPSLongitudeRef"}
MetaKeys == {"DateTimeOriginal", "DateTime", "CreateDate", "GPSLatitude", "GPSLongitude",
             "GPSLatitudeRef", "Make"}

\* The tags of the JPEG the requests of the service upload.
FullMetadata == [k \in MetaKeys |-> "v"]

\* The tags an uploaded JPEG can have: any of MetaKeys, the capture time and the
\* latitude possibly 0.
Uploads ==
    {m \in UNION {[S -> {"v", "zero"}] : S \in SUBSET MetaKeys} :
        \A k \in DOMAIN m : m[k] = "zero" => k \in {"DateTimeOriginal", "GPSLatitude"}}

\* What Jimp reads from the input buffer.
Decoded == [width |-> "W", height |-> "H", format |-> "jpeg", channels |-> 3]

\* Mutant of MetadataToPreserve: every tag of the original is copied.
MetadataCopiedWhole(originalMetadata, metadata) ==
    Spread(originalMetadata, [ImageWidth |-> metadata.width, ImageHeight |-> metadata.height])

\* Mutant of MetadataToPreserve: the GPS tags are copied when latitude or
\* longitude is set.
MetadataGpsEither(originalMetadata, metadata) ==
    LET dims == [ImageWidth |-> metadata.width, ImageHeight |-> metadata.height]
        time == IF Truthy(Prop(originalMetadata, "DateTimeOriginal"))
                    THEN [DateTimeOriginal |-> originalMetadata.DateTimeOriginal]
                ELSE IF Truthy(Prop(originalMetadata, "DateTime"))
                    THEN [DateTime |-> originalMetadata.DateTime]
                ELSE IF Truthy(Prop(originalMetadata, "CreateDate"))
                    THEN [CreateDate |-> originalMetadata.CreateDate]
                ELSE <<>>
        gps == IF Truthy(Prop(originalMetadata, "GPSLatitude"))
                    \/ Truthy(Prop(originalMetadata, "GPSLongitude"))
               THEN [k \in GPSKeys |-> Prop(originalMetadata, k)]
               ELSE <<>>
    IN Spread(Spread(dims, time), gps)

\* Mutant of MetadataToPreserve: DateTime is looked at before DateTimeOriginal.
MetadataDateTimeFirst(originalMetadata, metadata) ==
    LET dims == [ImageWidth |-> metadata.width, ImageHeight |-> metadata.height]
        time == IF Truthy(Prop(originalMetadata, "DateTime"))
                    THEN [DateTime |-> originalMetadata.DateTime]
                ELSE IF Truthy(Prop(originalMetadata, "DateTimeOriginal"))
                    THEN [DateTimeOriginal |-> originalMetadata.DateTimeOriginal]
                ELSE IF Truthy(Prop(originalMetadata, "CreateDate"))
                    THEN [CreateDate |-> originalMetadata.CreateDate]
                ELSE <<>>
        gps == IF Truthy(Prop(originalMetadata, "GPSLatitude"))
                    /\ Truthy(Prop(originalMetadata, "GPSLongitude"))
               THEN [k \in GPSKeys |-> Prop(originalMetadata, k)]
               ELSE <<>>
    IN Spread(Spread(dims, time), gps)

\* metadataToPreserve: the dimensions, the first capture time that is set, and
\* the four GPS tags when latitude and longitude are both set.
MetadataToPreserve(originalMetadata, metadata) ==
    LET dims == [ImageWidth |-> metadata.width, ImageHeight |-> metadata.height]
        time == IF Truthy(Prop(originalMetadata, "DateTimeOriginal"))
                    THEN [DateTimeOriginal |-> originalMetadata.DateTimeOriginal]
                ELSE IF Truthy(Prop(originalMetadata, "DateTime"))
                    THEN [DateTime |-> originalMetadata.DateTime]
                ELSE IF Truthy(Prop(originalMetadata, "CreateDate"))
                    THEN [CreateDate |-> originalMetadata.CreateDate]
                ELSE <<>>
        gps == IF Truthy(Prop(originalMetadata, "GPSLatitude"))
                    /\ Truthy(Prop(originalMetadata, "GPSLongitude"))
               THEN [k \in GPSKeys |-> Prop(originalMetadata, k)]
               ELSE <<>>
    IN Spread(Spread(dims, time), gps)

\* tempOriginal, tempThumb, tempFull of a job: the names start with job.id.
TempOriginal(jobId) == <<jobId, "original">>
TempThumb(jobId) == <<jobId, "thumb">>
TempFull(jobId) == <<jobId, "full">>
TempFiles(jobId) == {TempOriginal(jobId), TempThumb(jobId), TempFull(jobId)}

\* fs.writeFileSync(file, buffer): a directory is file name -> tags in the file.
WriteFileSync(dir, file, tags) ==
    [f \in (DOMAIN dir) \cup {file} |-> IF f = file THEN tags ELSE dir[f]]

\* exiftool.write(file, tags, ['-overwrite_original']): the file with the tags set.
ExiftoolWrite(dir, file, tags) ==
    WriteFileSync(dir, file, IF file \in DOMAIN dir THEN Spread(dir[file], tags) ELSE tags)

\* cleanupTempFiles: each of the three files is unlinked when it exists.
CleanupTempFiles(dir, jobId) == [f \in (DOMAIN dir) \ TempFiles(jobId) |-> dir[f]]

----------------------------------------------------------------------------
(* Buffers as bytes, and the base64 text of the job record *)

\* Longest buffer looked at, in bytes.
MaxBytes == 4

Bytes == {0, 77, 255}

\* The buffers of at most n bytes.
Buffers(n) == UNION {[1..k -> Bytes] : k \in 0..n}

\* The characters of the base64 text of a buffer, each as its 6-bit value:
\* three bytes give four characters, a rest of one byte two, of two bytes three.
RECURSIVE Base64Chars(_)
Base64Chars(b) ==
    IF Len(b) = 0 THEN <<>>
    ELSE IF Len(b) = 1 THEN <<b[1] \div 4, (b[1] % 4) * 16>>
    ELSE IF Len(b) = 2
    THEN <<b[1] \div 4, (b[1] % 4) * 16 + (b[2] \div 16), (b[2] % 16) * 4>>
    ELSE <<b[1] \div 4, (b[1] % 4) * 16 + (b[2] \div 16),
           (b[2] % 16) * 4 + (b[3] \div 64), b[3] % 64>>
         \o Base64Chars(SubSeq(b, 4, Len(b)))

\* Mutant of ToBase64: a rest of one or two bytes is left out of the text.
ToBase64Truncated(b) ==
    [chars |-> Base64Chars(SubSeq(b, 1, Len(b) - (Len(b) % 3))), padding |-> 0]

\* buffer.toString('base64'): the characters, and the number of '=' after them.
ToBase64(b) == [chars |-> Base64Chars(b), padding |-> (3 - (Len(b) % 3)) % 3]

\* The bytes of base64 characters: four characters give three bytes, a rest of
\* two characters one byte, of three characters two; a single character none.
RECURSIVE BytesOfChars(_)
BytesOfChars(c) ==
    IF Len(c) <= 1 THEN <<>>
    ELSE IF Len(c) = 2 THEN <<c[1] * 4 + (c[2] \div 16)>>
    ELSE IF Len(c) = 3
    THEN <<c[1] * 4 + (c[2] \div 16), (c[2] % 16) * 16 + (c[3] \div 4)>>
    ELSE <<c[1] * 4 + (c[2] \div 16), (c[2] % 16) * 16 + (c[3] \div 4),
           (c[3] % 4) * 64 + c[4]>>
         \o BytesOfChars(SubSeq(c, 5, Len(c)))

\* Buffer.from(text, 'base64'): the padding is not looked at.
FromBase64(text) == BytesOfChars(text.chars)

\* One variant of the results, from its final buffer.
VariantResult(filename, buffer) ==
    [filename |-> filename, data |-> ToBase64(buffer), size |-> Len(buffer),
     format |-> "avif"]

\* The sizes and payloads of the results, from processJob's buffers.
ResultBytes(inputBuffer, finalThumbnailBuffer, finalFullSizeBuffer) ==
    [thumbnail |-> VariantResult("name_thumb.avif", finalThumbnailBuffer),
     fullSize |-> VariantResult("name.avif", finalFullSizeBuffer),
     originalSize |-> Len(inputBuffer)]

NoCodec == [pc |-> "none"]

\* A ConversionWorker as constructed: isRunning false, no loop.
NoInstance == [isRunning |-> FALSE, loops |-> <<>>]

----------------------------------------------------------------------------
(* RedisService: the store commands, as the store executes them *)

\* The expiry JobService passes with every record it sets: 24 hours, in seconds.
TTL == 86400

\* Mutant of RedisSet: the value is set without an expiry whatever ttl is.
RedisSetPersist(st, key, value, ttl) ==
    [k \in (DOMAIN st) \cup {key} |->
        IF k = key THEN [value |-> JSONstringify(value)] ELSE st[k]]

\* set(key, value, ttl): setEx(key, ttl, JSON.stringify(value)) when ttl is set
\* (the key expires ttl seconds from now), else set(key, JSON.stringify(value))
\* (the key has no expiry).  A null ttl is 0 here.
RedisSet(st, key, value, ttl) ==
    [k \in (DOMAIN st) \cup {key} |->
        IF k # key THEN st[k]
        ELSE IF ttl # 0 THEN [value |-> JSONstringify(value), expireAt |-> now + ttl]
        ELSE [value |-> JSONstringify(value)]]

\* get(key): value ? JSON.parse(value) : null.  Callers test `key \in DOMAIN st` for null.
RedisGet(st, key) == JSONparse(st[key].value)

\* del(key); also the store's expiry of a key
RedisDel(st, key) == [k \in (DOMAIN st) \ {key} |-> st[k]]

\* Mutant of RedisLpush: the entry goes to the tail, where brPop takes from.
RedisRpush(q, value) == q \o <<JSONstringify(value)>>

\* Mutant of RedisLpush: the entry is pushed twice.
RedisLpushTwice(q, value) == <<JSONstringify(value), JSONstringify(value)>> \o q

\* lPush(key, JSON.stringify(value)): new head of the list
RedisLpush(q, value) == <<JSONstringify(value)>> \o q

\* Mutant of BrpopElement: the element returned is the head of the list.
BrpopElementHead(q) == JSONparse(q[1])

\* brPop(key, timeout): the element at the tail, parsed; the list without it
BrpopElement(q) == JSONparse(q[Len(q)])

\* Mutant of BrpopRest: the tail is read and left on the list.
BrpopKeeps(q) == q
BrpopRest(q) == SubSeq(q, 1, Len(q) - 1)


----------------------------------------------------------------------------
(* ConversionWorker: the loop of start() and processJob, as continuations *)

NoRec == [id |-> 0]

StorePcs == {"brpop", "fetch", "p_get", "p_set", "c_get", "c_set", "f_get", "f_set"}
StagePcs == {"exif_read", "decode", "thumb", "full", "wr_thumb", "wr_full"}

\* What the loop does when it comes back to `while (this.isRunning)`: leave the
\* loop, or call getNextJob.  getNextJob throws at once when the flag is false;
\* start() catches and the loop is at its head again without having awaited any
\* I/O: the worker spins in microtasks ("spin"), and the process runs nothing else.
LoopHead(w, conn) ==
    IF ~w.isRunning
    THEN [w EXCEPT !.pc = "stopped", !.jobId = 0, !.pending = NoRec, !.err = "",
                   !.locals = NoRec]
    ELSE IF conn
    THEN [w EXCEPT !.pc = "brpop", !.jobId = 0, !.pending = NoRec, !.err = "",
                   !.locals = NoRec]
    ELSE [w EXCEPT !.pc = "spin", !.jobId = 0, !.pending = NoRec, !.err = "",
                   !.locals = NoRec]

\* Mutant of CatchFailed: the outer catch logs the error and writes nothing.
CatchFailedSwallowed(w, conn, msg) == LoopHead(w, conn)

\* Mutant of CatchFailed: updateJobStatus without its isConnected() guard, so the
\* failed write is issued whatever the flag says.
CatchFailedUnguarded(w, conn, msg) ==
    [w EXCEPT !.pc = "f_get", !.pending = NoRec, !.err = msg]

\* The outer catch of processJob: updateJobStatus(job.id, {status: 'failed', ...}).
\* updateJobStatus throws at once when the flag is false, the error leaves
\* processJob and start() catches it.
CatchFailed(w, conn, msg) ==
    IF conn
    THEN [w EXCEPT !.pc = "f_get", !.pending = NoRec, !.err = msg]
    ELSE LoopHead(w, conn)

\* The first statement of processJob's try: updateJobStatus(job.id, {status: 'processing'}).
CallProcessing(w, conn, jobId) ==
    IF conn
    THEN [w EXCEPT !.pc = "p_get", !.jobId = jobId]
    ELSE CatchFailed([w EXCEPT !.jobId = jobId], conn,
                     "Failed to update job status: Redis not connected")

\* After the last stage: updateJobStatus(job.id, {status: 'completed', ...}).
CallCompleted(w, conn) ==
    IF conn
    THEN [w EXCEPT !.pc = "c_get"]
    ELSE CatchFailed(w, conn, "Failed to update job status: Redis not connected")

\* The results of the completed update, from processJob's locals.
Results(locals) ==
    [thumbnail |-> [filename |-> "name_thumb.avif", data |-> locals.finalThumbnailBuffer,
                    size |-> "length", format |-> "avif"],
     fullSize |-> [filename |-> "name.avif", data |-> locals.finalFullSizeBuffer,
                   size |-> "length", format |-> "avif"],
     originalSize |-> "length",
     metadataPreserved |-> TRUE,
     preservedMetadata |->
        [hasGPS |-> Truthy(Prop(locals.originalMetadata, "GPSLatitude"))
                        /\ Truthy(Prop(locals.originalMetadata, "GPSLongitude")),
         hasTimestamp |-> \E k \in TimestampKeys : Truthy(Prop(locals.originalMetadata, k)),
         dimensions |-> "WxH"]]

\* Mutant of ProcessingUpdates: the first write of the worker sets a terminal
\* status.
ProcessingUpdatesTerminal == [status |-> "failed", error |-> "E", processingTime |-> "ms"]

ProcessingUpdates == [status |-> "processing"]

\* Mutant of CompletedUpdates: the results hold the thumbnail only.
CompletedUpdatesThumbOnly(locals) ==
    [status |-> "completed", processingTime |-> "ms",
     results |-> [thumbnail |-> Results(locals).thumbnail]]

CompletedUpdates(locals) ==
    [status |-> "completed", processingTime |-> "ms", results |-> Results(locals)]

\* Mutant of FailedUpdates: the failed update carries no processingTime.
FailedUpdatesUntimed(msg) == [status |-> "failed", error |-> msg]

FailedUpdates(msg) == [status |-> "failed", error |-> msg, processingTime |-> "ms"]

\* The updates of the updateJobStatus call the worker is in.
UpdatesAt(w) ==
    CASE w.pc \in {"p_get", "p_set"} -> ProcessingUpdates
      [] w.pc \in {"c_get", "c_set"} -> CompletedUpdates(w.locals)
      [] OTHER -> FailedUpdates(w.err)

\* Where an error thrown by the updateJobStatus call the worker is in goes.
UpdateThrows(w, conn, msg) ==
    IF w.pc \in {"f_get", "f_set"}
    THEN LoopHead(w, conn)
    ELSE CatchFailed(w, conn, msg)

----------------------------------------------------------------------------
(* JobService.updateJobStatus: the record it writes *)

\* Mutant of UpdatedJob: the spread in the other order, { ...updates, ...job }.
UpdatedJobReversed(job, updates) == Spread(Spread(updates, job), [updatedAt |-> now])

\* Mutant of UpdatedJob: updatedAt is left as the record has it.
UpdatedJobStale(job, updates) == Spread(job, updates)

\* const updatedJob = { ...job, ...updates, updatedAt: new Date().toISOString() }
UpdatedJob(job, updates) == Spread(Spread(job, updates), [updatedAt |-> now])

----------------------------------------------------------------------------
(* Initial state: no process has started, the store is empty *)

\* locals: the block-scoped constants of processJob's inner try that later
\* statements read (originalMetadata, metadataToPreserve, the final buffers).
InitWorker ==
    [pc |-> "idle", isRunning |-> FALSE, jobId |-> 0, pending |-> NoRec, err |-> "",
     locals |-> NoRec]

\* A request: where its handler is, and the process that handles it while it
\* is being handled.
NoReq == [pc |-> "none", proc |-> "none"]
Answered(code) == [pc |-> code, proc |-> "none"]

\* A direct call: where it is, its arguments, the record it holds, and how the
\* last call ended (the error thrown, or the answer).
NoCall ==
    [pc |-> "idle", id |-> 0, updates |-> NoRec, pending |-> NoRec, threw |-> "",
     answer |-> ""]

Init ==
    /\ store = <<>>
    /\ queue = <<>>
    /\ connected = [p \in Procs |-> FALSE]
    /\ proc = [p \in Procs |-> "init"]
    /\ worker = [p \in Procs |-> InitWorker]
    /\ req = [r \in Reqs |-> NoReq]
    /\ pushOrder = <<>>
    /\ popOrder = <<>>
    /\ delivered = [p \in Procs |-> <<>>]
    /\ written = {}
    /\ writes = [r \in Reqs |-> 0]
    /\ lostAck = {}
    /\ api = NoCall
    /\ uploads = [r \in Reqs |-> FullMetadata]
    /\ files = [p \in Procs |-> <<>>]
    /\ late = [p \in Procs |-> {}]
    /\ now = 0
    /\ deleted = {}
    /\ codec = NoCodec
    /\ instance = NoInstance

\* The process runs its event loop: it is up and its worker is not spinning in
\* microtasks.
Runs(p) == proc[p] = "up" /\ worker[p].pc # "spin"

----------------------------------------------------------------------------
(* server.js startServer: initializeRedis, startWorker, app.listen *)

\* redisService.connect() succeeds ('connect' sets the flag); startWorker calls
\* start(), which sets isRunning and runs to its first await: brpop is in flight.
BootOk(p) ==
    /\ proc[p] = "init"
    /\ proc' = [proc EXCEPT ![p] = "up"]
    /\ connected' = [connected EXCEPT ![p] = TRUE]
    /\ worker' = [worker EXCEPT ![p] = LoopHead([InitWorker EXCEPT !.isRunning = TRUE], TRUE)]
    /\ UNCHANGED <<store, queue, req, pushOrder, popOrder, delivered, written, writes, lostAck, api, uploads, files, late, now, deleted, codec, instance>>

\* Mutant of BootFail: initializeRedis logs the error and returns, and
\* startServer goes on to startWorker and app.listen.
BootFailGoesOn(p) ==
    /\ proc[p] = "init"
    /\ proc' = [proc EXCEPT ![p] = "up"]
    /\ worker' = [worker EXCEPT ![p] = LoopHead([InitWorker EXCEPT !.isRunning = TRUE], FALSE)]
    /\ UNCHANGED <<store, queue, connected, req, pushOrder, popOrder, delivered, written, writes, lostAck, api, uploads, files, late, now, deleted, codec, instance>>

\* redisService.connect() throws: initializeRedis calls process.exit(1).
BootFail(p) ==
    /\ proc[p] = "init"
    /\ proc' = [proc EXCEPT ![p] = "exited"]
    /\ UNCHANGED <<store, queue, connected, worker, req, pushOrder, popOrder, delivered, written, writes, lostAck, api, uploads, files, late, now, deleted, codec, instance>>

----------------------------------------------------------------------------
(* POST /convert and JobService.createJob *)

\* Mutant of CreateNext: createJob pushes the entry and then stores the record.
CreateNextPushFirst(at) ==
    CASE at = "start" -> "push"
      [] at = "push" -> "set"
      [] OTHER -> "200"

\* The awaited store commands of createJob in order: set, then lpush, then return.
CreateNext(at) ==
    CASE at = "start" -> "set"
      [] at = "set" -> "push"
      [] OTHER -> "200"

CanArrive(r) == req[r].pc = "none" /\ (IF r = 1 THEN TRUE ELSE req[r - 1].pc # "none")

\* No file attached: 400.
ConvertNoFile(r, p) ==
    /\ Runs(p)
    /\ CanArrive(r)
    /\ req' = [req EXCEPT ![r] = Answered("400")]
    /\ UNCHANGED <<store, queue, connected, proc, worker, pushOrder, popOrder, delivered, written, writes, lostAck, api, uploads, files, late, now, deleted, codec, instance>>

\* With a file: 503 when the flag is false; else createJob builds the record and
\* awaits redisService.set.
Convert(r, p) ==
    /\ Runs(p)
    /\ CanArrive(r)
    /\ req' = [req EXCEPT ![r] = IF connected[p] THEN [pc |-> CreateNext("start"), proc |-> p] ELSE Answered("503")]
    /\ UNCHANGED <<store, queue, connected, proc, worker, pushOrder, popOrder, delivered, written, writes, lostAck, api, uploads, files, late, now, deleted, codec, instance>>

\* The set is executed and answered; createJob awaits redisService.lpush.
CreateSet(r) ==
    /\ req[r].pc = "set"
    /\ Runs(req[r].proc)
    /\ store' = RedisSet(store, JobKey(r), NewJob(r), TTL)
    /\ written' = written \cup {r}
    /\ req' = [req EXCEPT ![r] = IF CreateNext("set") = "200" THEN Answered("200")
                                  ELSE [@ EXCEPT !.pc = CreateNext("set")]]
    /\ UNCHANGED <<queue, connected, proc, worker, pushOrder, popOrder, delivered, writes, lostAck, api, uploads, files, late, now, deleted, codec, instance>>

\* The lpush is executed and answered; createJob returns the job and the handler
\* answers 200 with status queued.
CreatePush(r) ==
    /\ req[r].pc = "push"
    /\ Runs(req[r].proc)
    /\ queue' = RedisLpush(queue, [jobId |-> r])
    /\ pushOrder' = Append(pushOrder, [jobId |-> r])
    /\ req' = [req EXCEPT ![r] = IF CreateNext("push") = "200" THEN Answered("200")
                                  ELSE [@ EXCEPT !.pc = CreateNext("push")]]
    /\ UNCHANGED <<store, connected, proc, worker, popOrder, delivered, written, writes, lostAck, api, uploads, files, late, now, deleted, codec, instance>>

----------------------------------------------------------------------------
(* JobService.getNextJob, called by the loop of ConversionWorker.start *)

\* brpop answers: null after the timeout on an empty list (the loop polls
\* again), else the tail entry, and getNextJob awaits getJobStatus(jobId).
Brpop(p) ==
    /\ Runs(p)
    /\ worker[p].pc = "brpop"
    /\ IF queue = <<>>
       THEN /\ worker' = [worker EXCEPT ![p] = LoopHead(@, connected[p])]
            /\ UNCHANGED <<queue, popOrder, delivered>>
       ELSE /\ queue' = BrpopRest(queue)
            /\ popOrder' = Append(popOrder, BrpopElement(queue))
            /\ delivered' = [delivered EXCEPT ![p] = Append(@, BrpopElement(queue))]
            /\ worker' = [worker EXCEPT ![p].pc = "fetch",
                                        ![p].jobId = BrpopElement(queue).jobId]
    /\ UNCHANGED <<store, connected, proc, req, pushOrder, written, writes, lostAck, api, uploads, files, late, now, deleted, codec, instance>>

\* Mutant of Fetch: getNextJob returns the popped id as a job whether or not a
\* record was found.
FetchIgnoresAbsence(p) ==
    /\ Runs(p)
    /\ worker[p].pc = "fetch"
    /\ worker' = [worker EXCEPT ![p] = CallProcessing(@, connected[p], @.jobId)]
    /\ UNCHANGED <<store, queue, connected, proc, req, pushOrder, popOrder, delivered, written, writes, lostAck, api, uploads, files, late, now, deleted, codec, instance>>

\* The get of getNextJob answers: no record, warn and return null (the loop
\* polls again); else the loop calls processJob(job), whose first await is the
\* get of updateJobStatus(job.id, {status: 'processing'}).
Fetch(p) ==
    /\ Runs(p)
    /\ worker[p].pc = "fetch"
    /\ worker' = [worker EXCEPT ![p] =
          IF JobKey(@.jobId) \notin DOMAIN store
          THEN LoopHead(@, connected[p])
          ELSE CallProcessing(@, connected[p], RedisGet(store, JobKey(@.jobId)).id)]
    /\ UNCHANGED <<store, queue, connected, proc, req, pushOrder, popOrder, delivered, written, writes, lostAck, api, uploads, files, late, now, deleted, codec, instance>>

----------------------------------------------------------------------------
(* JobService.updateJobStatus, called by processJob *)

SetPcOf(pc) ==
    CASE pc = "p_get" -> "p_set"
      [] pc = "c_get" -> "c_set"
      [] OTHER -> "f_set"

\* The get of updateJobStatus answers: no record, throw not found; else build
\* updatedJob and await redisService.set.
UpdateGet(p) ==
    /\ Runs(p)
    /\ worker[p].pc \in {"p_get", "c_get", "f_get"}
    /\ LET w == worker[p] IN
       worker' = [worker EXCEPT ![p] =
          IF JobKey(w.jobId) \notin DOMAIN store
          THEN UpdateThrows(w, connected[p], "Failed to update job status: Job not found")
          ELSE [w EXCEPT !.pc = SetPcOf(w.pc),
                         !.pending = UpdatedJob(RedisGet(store, JobKey(w.jobId)), UpdatesAt(w))]]
    /\ UNCHANGED <<store, queue, connected, proc, req, pushOrder, popOrder, delivered, written, writes, lostAck, api, uploads, files, late, now, deleted, codec, instance>>

\* After updateJobStatus returned: after the processing write processJob writes
\* tempOriginal and goes on to the first stage (exiftool.read); after a
\* terminal write it returns to the loop.
AfterUpdate(w, conn) ==
    IF w.pc = "p_set"
    THEN [w EXCEPT !.pc = "exif_read", !.pending = NoRec]
    ELSE LoopHead(w, conn)

\* The set of updateJobStatus is executed and answered.
UpdateSet(p) ==
    /\ Runs(p)
    /\ worker[p].pc \in {"p_set", "c_set", "f_set"}
    /\ store' = RedisSet(store, JobKey(worker[p].jobId), worker[p].pending, TTL)
    /\ written' = written \cup {worker[p].jobId}
    /\ writes' = [writes EXCEPT ![worker[p].jobId] = @ + 1]
    /\ worker' = [worker EXCEPT ![p] = AfterUpdate(@, connected[p])]
    /\ files' = IF worker[p].pc = "p_set"
                THEN [files EXCEPT ![p] = WriteFileSync(@, TempOriginal(worker[p].jobId),
                                                        uploads[worker[p].jobId])]
                ELSE files
    /\ UNCHANGED <<queue, connected, proc, req, pushOrder, popOrder, delivered, lostAck, api, uploads, late, now, deleted, codec, instance>>

----------------------------------------------------------------------------
(* processJob: the pipeline stages, each one awaited call *)

\* Stages wrapped in withTimeout.
TimedStages == {"thumb", "full", "wr_thumb", "wr_full"}

StageOutcomes(pc) == IF pc \in TimedStages THEN {"ok", "fail", "timeout"} ELSE {"ok", "fail"}

\* The message of the error a stage throws.
StageError(pc, outcome) ==
    IF outcome = "timeout"
    THEN CASE pc = "thumb" -> "Thumbnail conversion timed out after 30000ms"
           [] pc = "full" -> "Full-size conversion timed out after 60000ms"
           [] pc = "wr_thumb" -> "Thumbnail metadata copy timed out after 10000ms"
           [] OTHER -> "Full-size metadata copy timed out after 10000ms"
    ELSE IF pc = "exif_read" THEN "Metadata extraction failed: E" ELSE "E"

\* Mutant of AfterStage: the pipeline goes from the thumbnail to the metadata
\* copy without the full-size conversion.
AfterStageSkipsFull(w, conn, outcome) ==
    IF outcome # "ok"
    THEN CatchFailed(w, conn, StageError(w.pc, outcome))
    ELSE CASE w.pc = "exif_read" -> [w EXCEPT !.pc = "decode"]
           [] w.pc = "decode" -> [w EXCEPT !.pc = "thumb"]
           [] w.pc = "thumb" -> [w EXCEPT !.pc = "wr_thumb"]
           [] w.pc = "full" -> [w EXCEPT !.pc = "wr_thumb"]
           [] w.pc = "wr_thumb" -> [w EXCEPT !.pc = "wr_full"]
           [] OTHER -> CallCompleted(w, conn)

\* Where processJob goes when the stage in flight ends.
AfterStage(w, conn, outcome) ==
    IF outcome # "ok"
    THEN CatchFailed(w, conn, StageError(w.pc, outcome))
    ELSE CASE w.pc = "exif_read" -> [w EXCEPT !.pc = "decode"]
           [] w.pc = "decode" -> [w EXCEPT !.pc = "thumb"]
           [] w.pc = "thumb" -> [w EXCEPT !.pc = "full"]
           [] w.pc = "full" -> [w EXCEPT !.pc = "wr_thumb"]
           [] w.pc = "wr_thumb" -> [w EXCEPT !.pc = "wr_full"]
           [] OTHER -> CallCompleted(w, conn)

\* The codec calls of processJob in flight at a pc: each is awaited before the
\* next one is made.
InFlight(w) ==
    CASE w.pc = "decode" -> {"Jimp.read"}
      [] w.pc = "thumb" -> {"Thumbnail conversion"}
      [] w.pc = "full" -> {"Full-size conversion"}
      [] OTHER -> {}

\* processJob's locals when the stage in flight ends: what exiftool read, the
\* tags to copy (built once, after both conversions), the final buffers read
\* back from the temp files.  The outer catch sees none of them.
LocalsAfterStage(w, dir, outcome) ==
    IF outcome # "ok" THEN NoRec
    ELSE CASE w.pc = "exif_read" -> [originalMetadata |-> dir[TempOriginal(w.jobId)]]
           [] w.pc = "full" ->
                Spread(w.locals, [metadataToPreserve |->
                                    MetadataToPreserve(w.locals.originalMetadata, Decoded)])
           [] w.pc = "wr_full" ->
                Spread(w.locals,
                       [finalThumbnailBuffer |-> dir[TempThumb(w.jobId)],
                        finalFullSizeBuffer |->
                            ExiftoolWrite(dir, TempFull(w.jobId),
                                          w.locals.metadataToPreserve)[TempFull(w.jobId)]])
           [] OTHER -> w.locals

\* The temp directory when the stage in flight ends: the inner catch cleans up;
\* after both conversions the two AVIF files are written (no tags yet); a
\* metadata copy sets the tags; after the second copy the files are read back
\* and cleaned up.
FilesAfterStage(dir, w, outcome) ==
    IF outcome # "ok" THEN CleanupTempFiles(dir, w.jobId)
    ELSE CASE w.pc = "full" ->
                WriteFileSync(WriteFileSync(dir, TempThumb(w.jobId), <<>>),
                              TempFull(w.jobId), <<>>)
           [] w.pc = "wr_thumb" ->
                ExiftoolWrite(dir, TempThumb(w.jobId), w.locals.metadataToPreserve)
           [] w.pc = "wr_full" -> CleanupTempFiles(dir, w.jobId)
           [] OTHER -> dir

\* withTimeout is Promise.race: when the timer wins, the exiftool write is not
\* cancelled.
LateAfterStage(l, w, outcome) ==
    IF outcome = "timeout" /\ w.pc \in {"wr_thumb", "wr_full"}
    THEN l \cup {[file |-> IF w.pc = "wr_thumb" THEN TempThumb(w.jobId) ELSE TempFull(w.jobId),
                  tags |-> w.locals.metadataToPreserve]}
    ELSE l

Stage(p) ==
    /\ Runs(p)
    /\ worker[p].pc \in StagePcs
    /\ \E outcome \in StageOutcomes(worker[p].pc) :
          LET w == worker[p] IN
          /\ worker' = [worker EXCEPT ![p] =
                AfterStage([w EXCEPT !.locals = LocalsAfterStage(w, files[p], outcome)],
                           connected[p], outcome)]
          /\ files' = [files EXCEPT ![p] = FilesAfterStage(@, w, outcome)]
          /\ late' = [late EXCEPT ![p] = LateAfterStage(@, w, outcome)]
    /\ UNCHANGED <<store, queue, connected, proc, req, pushOrder, popOrder, delivered, written, writes, lostAck, api, uploads, now, deleted, codec, instance>>

\* exiftool.read or Jimp.read never settles: no timer races it, processJob
\* stays at its await.
StageHangs(p) ==
    /\ Runs(p)
    /\ worker[p].pc \in StagePcs \ TimedStages
    /\ worker' = [worker EXCEPT ![p].pc = "hung"]
    /\ UNCHANGED <<store, queue, connected, proc, req, pushOrder, popOrder, delivered, written, writes, lostAck, api, uploads, files, late, now, deleted, codec, instance>>

\* An exiftool write that lost the race against its timer ends: it fails (the
\* file was unlinked before exiftool opened it), or it completes and the file
\* is in the temp directory again.
LateWrite(p) ==
    /\ proc[p] = "up"
    /\ \E x \in late[p], done \in BOOLEAN :
          /\ late' = [late EXCEPT ![p] = @ \ {x}]
          /\ files' = IF done THEN [files EXCEPT ![p] = ExiftoolWrite(@, x.file, x.tags)]
                      ELSE files
    /\ UNCHANGED <<store, queue, connected, proc, worker, req, pushOrder, popOrder, delivered, written, writes, lostAck, api, uploads, now, deleted, codec, instance>>

----------------------------------------------------------------------------
(* The store connection of a process: RedisService's 'error'/'end' and
   'connect'/'ready' handlers, and the commands in flight when it drops *)

\* The store side of the shared state, as one value.
Shared == [store |-> store, queue |-> queue, pushOrder |-> pushOrder,
           popOrder |-> popOrder, written |-> written, writes |-> writes,
           lostAck |-> lostAck]

\* The commands of process p in flight that change the store.
CutReqs(p) == {r \in Reqs : req[r].proc = p /\ req[r].pc \in {"set", "push"}}
WorkerWrites(p) == worker[p].pc \in {"brpop", "p_set", "c_set", "f_set"}

\* The worker's command in flight, executed by the store with its answer lost.
CutWorker(p, s) ==
    LET w == worker[p] IN
    IF w.pc = "brpop"
    THEN IF s.queue = <<>> THEN s
         ELSE [s EXCEPT !.queue = BrpopRest(@),
                        !.popOrder = Append(@, BrpopElement(s.queue))]
    ELSE [s EXCEPT !.store = RedisSet(@, JobKey(w.jobId), w.pending, TTL),
                   !.written = @ \cup {w.jobId},
                   !.writes = [@ EXCEPT ![w.jobId] = @ + 1],
                   !.lostAck = IF w.pc = "p_set" THEN @ ELSE @ \cup {w.jobId}]

\* The createJob commands in A, executed by the store with their answers lost.
RECURSIVE CutCreates(_, _)
CutCreates(A, s) ==
    IF A = {} THEN s
    ELSE LET r == CHOOSE x \in A : \A y \in A : x <= y
             s1 == IF req[r].pc = "set"
                   THEN [s EXCEPT !.store = RedisSet(@, JobKey(r), NewJob(r), TTL),
                                  !.written = @ \cup {r}]
                   ELSE [s EXCEPT !.queue = RedisLpush(@, [jobId |-> r]),
                                  !.pushOrder = Append(@, [jobId |-> r])]
         IN CutCreates(A \ {r}, s1)

\* The connection of p drops with the commands in A (and the worker's, when wa)
\* executed but unanswered, the others not executed.
AfterCut(p, A, wa) == CutCreates(A, IF wa THEN CutWorker(p, Shared) ELSE Shared)

\* Every command of the process in flight is rejected.  A worker awaiting a
\* store command sees its call throw with the flag false; a worker in a stage
\* goes on with the stage.
WorkerCut(w) ==
    CASE w.pc \in {"brpop", "fetch"} -> LoopHead(w, FALSE)
      [] w.pc \in StorePcs \ {"brpop", "fetch"} ->
            UpdateThrows(w, FALSE, "Failed to update job status: Socket closed unexpectedly")
      [] OTHER -> w

\* createJob throws and the handler answers 500.
ReqsCut(p, to) ==
    [r \in Reqs |-> IF r \in CutReqs(p) THEN Answered(to) ELSE req[r]]

Disconnect(p) ==
    /\ Runs(p)
    /\ connected[p]
    /\ \E A \in SUBSET CutReqs(p), wa \in {FALSE, WorkerWrites(p)} :
         LET s == AfterCut(p, A, wa) IN
            /\ store' = s.store
            /\ queue' = s.queue
            /\ pushOrder' = s.pushOrder
            /\ popOrder' = s.popOrder
            /\ written' = s.written
            /\ writes' = s.writes
            /\ lostAck' = s.lostAck
    /\ connected' = [connected EXCEPT ![p] = FALSE]
    /\ worker' = [worker EXCEPT ![p] = WorkerCut(@)]
    /\ req' = ReqsCut(p, "500")
    /\ UNCHANGED <<proc, delivered, api, uploads, files, late, now, deleted, codec, instance>>

\* The client reconnects: 'connect' sets the flag.
Reconnect(p) ==
    /\ Runs(p)
    /\ ~connected[p]
    /\ connected' = [connected EXCEPT ![p] = TRUE]
    /\ UNCHANGED <<store, queue, proc, worker, req, pushOrder, popOrder, delivered, written, writes, lostAck, api, uploads, files, late, now, deleted, codec, instance>>

\* The worker spins: getNextJob throws, start() catches, the loop calls
\* getNextJob again, all in microtasks; no handler of the process runs.
Spin(p) ==
    /\ proc[p] = "up"
    /\ worker[p].pc = "spin"
    /\ worker' = [worker EXCEPT ![p] = LoopHead(@, connected[p])]
    /\ UNCHANGED <<store, queue, connected, proc, req, pushOrder, popOrder, delivered, written, writes, lostAck, api, uploads, files, late, now, deleted, codec, instance>>

\* Mutant of Terminate: the process pushes the job its worker has in a stage
\* back onto the queue before it ends.
TerminateRequeues(p) ==
    /\ proc[p] = "up"
    /\ \E A \in SUBSET CutReqs(p), wa \in {FALSE, WorkerWrites(p)} :
         LET s == AfterCut(p, A, wa) IN
            /\ store' = s.store
            /\ queue' = IF worker[p].pc \in StagePcs
                        THEN RedisLpush(s.queue, [jobId |-> worker[p].jobId])
                        ELSE s.queue
            /\ pushOrder' = s.pushOrder
            /\ popOrder' = s.popOrder
            /\ written' = s.written
            /\ writes' = s.writes
            /\ lostAck' = s.lostAck
    /\ proc' = [proc EXCEPT ![p] = "exited"]
    /\ connected' = [connected EXCEPT ![p] = FALSE]
    /\ worker' = [worker EXCEPT ![p] = [InitWorker EXCEPT !.pc = "dead"]]
    /\ req' = ReqsCut(p, "dead")
    /\ files' = [files EXCEPT ![p] = <<>>]
    /\ late' = [late EXCEPT ![p] = {}]
    /\ UNCHANGED <<delivered, api, uploads, now, deleted, codec, instance>>

\* The process ends (SIGTERM/SIGINT: stop(), disconnect(), process.exit(0); or
\* it is killed): nothing of it runs again, its commands in flight may still
\* be executed.  Its temp directory is not looked at again.
Terminate(p) ==
    /\ proc[p] = "up"
    /\ \E A \in SUBSET CutReqs(p), wa \in {FALSE, WorkerWrites(p)} :
         LET s == AfterCut(p, A, wa) IN
            /\ store' = s.store
            /\ queue' = s.queue
            /\ pushOrder' = s.pushOrder
            /\ popOrder' = s.popOrder
            /\ written' = s.written
            /\ writes' = s.writes
            /\ lostAck' = s.lostAck
    /\ proc' = [proc EXCEPT ![p] = "exited"]
    /\ connected' = [connected EXCEPT ![p] = FALSE]
    /\ worker' = [worker EXCEPT ![p] = [InitWorker EXCEPT !.pc = "dead"]]
    /\ req' = ReqsCut(p, "dead")
    /\ files' = [files EXCEPT ![p] = <<>>]
    /\ late' = [late EXCEPT ![p] = {}]
    /\ UNCHANGED <<delivered, api, uploads, now, deleted, codec, instance>>

\* The store expires the record's key (24 hours after its last write).
Expire(id) ==
    /\ JobKey(id) \in DOMAIN store
    /\ "expireAt" \in DOMAIN store[JobKey(id)]
    /\ store' = RedisDel(store, JobKey(id))
    /\ UNCHANGED <<queue, connected, proc, worker, req, pushOrder, popOrder, delivered, written, writes, lostAck, api, uploads, files, late, now, deleted, codec, instance>>

----------------------------------------------------------------------------

Next ==
    \/ \E p \in Procs : BootOk(p)
    \/ \E p \in Procs : BootFail(p)
    \/ \E r \in Reqs, p \in Procs : ConvertNoFile(r, p)
    \/ \E r \in Reqs, p \in Procs : Convert(r, p)
    \/ \E r \in Reqs : CreateSet(r)
    \/ \E r \in Reqs : CreatePush(r)
    \/ \E p \in Procs : Brpop(p)
    \/ \E p \in Procs : Fetch(p)
    \/ \E p \in Procs : UpdateGet(p)
    \/ \E p \in Procs : UpdateSet(p)
    \/ \E p \in Procs : Stage(p)
    \/ \E p \in Procs : StageHangs(p)
    \/ \E p \in Procs : LateWrite(p)
    \/ \E p \in Procs : Disconnect(p)
    \/ \E p \in Procs : Reconnect(p)
    \/ \E p \in Procs : Spin(p)
    \/ \E p \in Procs : Terminate(p)
    \/ \E id \in Reqs : Expire(id)

Spec == Init /\ [][Next]_vars

----------------------------------------------------------------------------
(* The service while every store connection stays up, no record expires and no
   process ends; every awaited store command and codec call is answered *)

NextLive ==
    \/ \E p \in Procs : BootOk(p)
    \/ \E r \in Reqs, p \in Procs : ConvertNoFile(r, p)
    \/ \E r \in Reqs, p \in Procs : Convert(r, p)
    \/ \E r \in Reqs : CreateSet(r)
    \/ \E r \in Reqs : CreatePush(r)
    \/ \E p \in Procs : Brpop(p)
    \/ \E p \in Procs : Fetch(p)
    \/ \E p \in Procs : UpdateGet(p)
    \/ \E p \in Procs : UpdateSet(p)
    \/ \E p \in Procs : Stage(p)
    \/ \E p \in Procs : LateWrite(p)

\* The store answers every command of a worker and every codec or metadata
\* call returns or fails: a worker's awaited step that stays possible is taken.
WorkerFairness ==
    \A p \in Procs :
        /\ WF_vars(Brpop(p))
        /\ WF_vars(Fetch(p))
        /\ WF_vars(UpdateGet(p))
        /\ WF_vars(UpdateSet(p))
        /\ WF_vars(Stage(p))

SpecLive == Init /\ [][NextLive]_vars /\ WorkerFairness

----------------------------------------------------------------------------
(* One process converting one upload, for every upload in Uploads: the
   pipeline of processJob with the store connected *)

PipeProc == "p1"

InitPipeline ==
    /\ store = <<>>
    /\ queue = <<>>
    /\ connected = [p \in Procs |-> FALSE]
    /\ proc = [p \in Procs |-> "init"]
    /\ worker = [p \in Procs |-> InitWorker]
    /\ req = [r \in Reqs |-> NoReq]
    /\ pushOrder = <<>>
    /\ popOrder = <<>>
    /\ delivered = [p \in Procs |-> <<>>]
    /\ written = {}
    /\ writes = [r \in Reqs |-> 0]
    /\ lostAck = {}
    /\ api = NoCall
    /\ \E m \in Uploads : uploads = [r \in Reqs |-> IF r = 1 THEN m ELSE FullMetadata]
    /\ files = [p \in Procs |-> <<>>]
    /\ late = [p \in Procs |-> {}]
    /\ now = 0
    /\ deleted = {}
    /\ codec = NoCodec
    /\ instance = NoInstance

NextPipeline ==
    \/ BootOk(PipeProc)
    \/ Convert(1, PipeProc)
    \/ CreateSet(1)
    \/ CreatePush(1)
    \/ Brpop(PipeProc)
    \/ Fetch(PipeProc)
    \/ UpdateGet(PipeProc)
    \/ UpdateSet(PipeProc)
    \/ Stage(PipeProc)
    \/ StageHangs(PipeProc)
    \/ LateWrite(PipeProc)

SpecPipeline == InitPipeline /\ [][NextPipeline]_vars

----------------------------------------------------------------------------
(* server.js startWorker: the supervisor of the worker loop *)

\* An error escapes the loop of start() (the logger call of its catch block
\* throws while the loop runs through the catch): the promise of start()
\* rejects, isRunning is still true, and the catch handler of startWorker sets
\* the 5 second timer.
StartRejects(p) ==
    /\ proc[p] = "up"
    /\ worker[p].pc = "spin"
    /\ worker' = [worker EXCEPT ![p].pc = "crashed"]
    /\ UNCHANGED <<store, queue, connected, proc, req, pushOrder, popOrder, delivered, written, writes, lostAck, api, uploads, files, late, now, deleted, codec, instance>>

\* The timer fires: startWorker calls conversionWorker.start() on the same
\* instance, which returns at once when isRunning is true.
Restart(p) ==
    /\ Runs(p)
    /\ worker[p].pc = "crashed"
    /\ worker' = [worker EXCEPT ![p] =
          IF @.isRunning THEN [@ EXCEPT !.pc = "returned"]
          ELSE LoopHead([@ EXCEPT !.isRunning = TRUE], connected[p])]
    /\ UNCHANGED <<store, queue, connected, proc, req, pushOrder, popOrder, delivered, written, writes, lostAck, api, uploads, files, late, now, deleted, codec, instance>>

NextSupervisor ==
    \/ BootOk(PipeProc)
    \/ \E r \in Reqs : Convert(r, PipeProc)
    \/ \E r \in Reqs : CreateSet(r)
    \/ \E r \in Reqs : CreatePush(r)
    \/ Brpop(PipeProc)
    \/ Fetch(PipeProc)
    \/ UpdateGet(PipeProc)
    \/ UpdateSet(PipeProc)
    \/ Stage(PipeProc)
    \/ Disconnect(PipeProc)
    \/ Reconnect(PipeProc)
    \/ Spin(PipeProc)
    \/ StartRejects(PipeProc)
    \/ Restart(PipeProc)

SpecSupervisor == Init /\ [][NextSupervisor]_vars

----------------------------------------------------------------------------
(* JobService called directly: the registry's contract for any caller *)

ApiProc == "p1"

\* A process whose store connection is up and whose worker was not started.
InitRegistry ==
    /\ store = <<>>
    /\ queue = <<>>
    /\ connected = [p \in Procs |-> p = ApiProc]
    /\ proc = [p \in Procs |-> IF p = ApiProc THEN "up" ELSE "init"]
    /\ worker = [p \in Procs |-> InitWorker]
    /\ req = [r \in Reqs |-> NoReq]
    /\ pushOrder = <<>>
    /\ popOrder = <<>>
    /\ delivered = [p \in Procs |-> <<>>]
    /\ written = {}
    /\ writes = [r \in Reqs |-> 0]
    /\ lostAck = {}
    /\ api = NoCall
    /\ uploads = [r \in Reqs |-> FullMetadata]
    /\ files = [p \in Procs |-> <<>>]
    /\ late = [p \in Procs |-> {}]
    /\ now = 0
    /\ deleted = {}
    /\ codec = NoCodec
    /\ instance = NoInstance

\* The results a caller passes with status completed.
CallerLocals ==
    [originalMetadata |-> FullMetadata,
     finalThumbnailBuffer |-> MetadataToPreserve(FullMetadata, Decoded),
     finalFullSizeBuffer |-> MetadataToPreserve(FullMetadata, Decoded)]

\* The updates a caller passes with a status.
ApiUpdates(status) ==
    CASE status = "completed" -> CompletedUpdates(CallerLocals)
      [] status = "failed" -> FailedUpdates("E")
      [] OTHER -> [status |-> status]

\* Mutant of ApiUpdateCall: updateJobStatus without its isConnected() guard.
ApiUpdateCallUnguarded(id, status) ==
    /\ api.pc = "idle"
    /\ api' = [NoCall EXCEPT !.pc = "get", !.id = id, !.updates = ApiUpdates(status)]
    /\ UNCHANGED <<store, queue, connected, proc, worker, req, pushOrder, popOrder,
                   delivered, written, writes, lostAck, uploads, files, late, now, deleted, codec, instance>>

\* updateJobStatus(id, updates) is called: it throws at once when the flag is
\* false, else it awaits getJobStatus(id).
ApiUpdateCall(id, status) ==
    /\ api.pc = "idle"
    /\ api' = IF connected[ApiProc]
              THEN [NoCall EXCEPT !.pc = "get", !.id = id, !.updates = ApiUpdates(status)]
              ELSE [NoCall EXCEPT !.threw = "Redis not connected - cannot update job status"]
    /\ UNCHANGED <<store, queue, connected, proc, worker, req, pushOrder, popOrder,
                   delivered, written, writes, lostAck, uploads, files, late, now, deleted, codec, instance>>

\* Mutant of ApiUpdateGet: a missing record is taken as an empty one.
ApiUpdateGetUpsert ==
    /\ api.pc = "get"
    /\ api' = [api EXCEPT !.pc = "set",
                          !.pending = IF JobKey(api.id) \notin DOMAIN store THEN api.updates
                                      ELSE UpdatedJob(RedisGet(store, JobKey(api.id)), api.updates)]
    /\ UNCHANGED <<store, queue, connected, proc, worker, req, pushOrder, popOrder,
                   delivered, written, writes, lostAck, uploads, files, late, now, deleted, codec, instance>>

\* The get answers: no record, throw not found; else build updatedJob and await
\* redisService.set.
ApiUpdateGet ==
    /\ api.pc = "get"
    /\ api' = IF JobKey(api.id) \notin DOMAIN store
              THEN [NoCall EXCEPT !.threw = "Failed to update job status: Job not found"]
              ELSE [api EXCEPT !.pc = "set", !.pending = UpdatedJob(RedisGet(store, JobKey(api.id)), api.updates)]
    /\ UNCHANGED <<store, queue, connected, proc, worker, req, pushOrder, popOrder,
                   delivered, written, writes, lostAck, uploads, files, late, now, deleted, codec, instance>>

\* The set is executed and answered; updateJobStatus returns updatedJob.
ApiUpdateSet ==
    /\ api.pc = "set"
    /\ store' = RedisSet(store, JobKey(api.id), api.pending, TTL)
    /\ written' = written \cup {api.id}
    /\ api' = NoCall
    /\ UNCHANGED <<queue, connected, proc, worker, req, pushOrder, popOrder,
                   delivered, writes, lostAck, uploads, files, late, now, deleted, codec, instance>>

\* deleteJob(id): it throws at once when the flag is false, else
\* redisService.del of the record's key.
ApiDelete(id) ==
    /\ api.pc = "idle"
    /\ IF connected[ApiProc]
       THEN /\ store' = RedisDel(store, JobKey(id))
            /\ deleted' = deleted \cup {id}
            /\ api' = api
       ELSE /\ api' = [NoCall EXCEPT !.threw = "Redis not connected - cannot delete job"]
            /\ UNCHANGED <<store, deleted>>
    /\ UNCHANGED <<queue, connected, proc, worker, req, pushOrder, popOrder,
                   delivered, written, writes, lostAck, uploads, files, late, now, codec, instance>>

NextRegistry ==
    \/ \E r \in Reqs : Convert(r, ApiProc)
    \/ \E r \in Reqs : CreateSet(r)
    \/ \E r \in Reqs : CreatePush(r)
    \/ \E id \in Reqs, status \in {"queued", "processing", "completed", "failed"} :
          ApiUpdateCall(id, status)
    \/ ApiUpdateGet
    \/ ApiUpdateSet
    \/ \E id \in Reqs : ApiDelete(id)
    \/ \E id \in Reqs : Expire(id)

SpecRegistry == InitRegistry /\ [][NextRegistry]_vars

----------------------------------------------------------------------------
(* JobService.createJob called directly, GET /status/:jobId, and the clock *)

\* Number of clock steps looked at.
MaxTicks == 4

\* Time passes in steps of half the expiry.
ClockStep == TTL \div 2

\* uuidv4(): an id nothing has used.
FreshIds == {r \in Reqs : r \notin written /\ req[r].pc = "none"}
FreshId == CHOOSE r \in FreshIds : \A y \in FreshIds : r <= y

\* createJob(jobData) is called: it builds the job and throws at once when the
\* flag is false, else it awaits redisService.set.
ApiCreateCall(jobData) ==
    /\ api.pc = "idle"
    /\ FreshIds # {}
    /\ api' = IF connected[ApiProc]
              THEN [NoCall EXCEPT !.pc = "create_set", !.id = FreshId,
                                  !.pending = CreatedJob(FreshId, jobData)]
              ELSE [NoCall EXCEPT !.threw = "Redis not connected - cannot create job"]
    /\ UNCHANGED <<store, queue, connected, proc, worker, req, pushOrder, popOrder,
                   delivered, written, writes, lostAck, uploads, files, late, now, deleted, codec, instance>>

\* The set is executed and answered; createJob awaits redisService.lpush.
ApiCreateSet ==
    /\ api.pc = "create_set"
    /\ store' = RedisSet(store, JobKey(api.id), api.pending, TTL)
    /\ written' = written \cup {api.id}
    /\ api' = [api EXCEPT !.pc = "create_push"]
    /\ UNCHANGED <<queue, connected, proc, worker, req, pushOrder, popOrder,
                   delivered, writes, lostAck, uploads, files, late, now, deleted, codec, instance>>

\* The lpush is executed and answered; createJob returns the job.
ApiCreatePush ==
    /\ api.pc = "create_push"
    /\ queue' = RedisLpush(queue, [jobId |-> api.id])
    /\ pushOrder' = Append(pushOrder, [jobId |-> api.id])
    /\ api' = [NoCall EXCEPT !.id = api.id, !.pending = api.pending, !.answer = "job"]
    /\ UNCHANGED <<store, connected, proc, worker, req, popOrder,
                   delivered, written, writes, lostAck, uploads, files, late, now, deleted, codec, instance>>

\* The body of the 200 answer of GET /status/:jobId: res.json leaves out the
\* keys whose value is undefined.
StatusBody(job) ==
    LET all == [success |-> TRUE, jobId |-> Prop(job, "id"), status |-> Prop(job, "status"),
                createdAt |-> Prop(job, "createdAt"), updatedAt |-> Prop(job, "updatedAt"),
                processingTime |-> Prop(job, "processingTime"),
                results |-> Prop(job, "results"), error |-> Prop(job, "error")]
        present == {"success"} \cup
                   {k \in {"status", "createdAt", "updatedAt", "processingTime", "results", "error"} :
                        k \in DOMAIN job}
                   \cup (IF "id" \in DOMAIN job THEN {"jobId"} ELSE {})
    IN [k \in present |-> all[k]]

\* GET /status/:jobId arrives: 503 when the flag is false, else the handler
\* awaits getJobStatus(jobId).
ApiStatusCall(id) ==
    /\ api.pc = "idle"
    /\ api' = IF connected[ApiProc]
              THEN [NoCall EXCEPT !.pc = "status", !.id = id]
              ELSE [NoCall EXCEPT !.id = id, !.answer = "503"]
    /\ UNCHANGED <<store, queue, connected, proc, worker, req, pushOrder, popOrder,
                   delivered, written, writes, lostAck, uploads, files, late, now, deleted, codec, instance>>

\* Mutant of StatusAnswer: an id without a record is an error of the handler.
StatusAnswerThrows(st, id) ==
    IF JobKey(id) \notin DOMAIN st
    THEN [NoCall EXCEPT !.id = id, !.answer = "500", !.threw = "Job not found"]
    ELSE [NoCall EXCEPT !.id = id, !.answer = "200",
                        !.pending = StatusBody(RedisGet(st, JobKey(id)))]

\* What the handler answers when the get of getJobStatus is answered: no value
\* under the key, getJobStatus returns null and the answer is 404; else 200
\* with the fields of the job.
StatusAnswer(st, id) ==
    IF JobKey(id) \notin DOMAIN st
    THEN [NoCall EXCEPT !.id = id, !.answer = "404"]
    ELSE [NoCall EXCEPT !.id = id, !.answer = "200",
                        !.pending = StatusBody(RedisGet(st, JobKey(id)))]

ApiStatusGet ==
    /\ api.pc = "status"
    /\ api' = StatusAnswer(store, api.id)
    /\ UNCHANGED <<store, queue, connected, proc, worker, req, pushOrder, popOrder,
                   delivered, written, writes, lostAck, uploads, files, late, now, deleted, codec, instance>>

\* Time passes by one step: the store removes the keys whose expiry is reached.
Tick ==
    /\ now < MaxTicks * ClockStep
    /\ now' = now + ClockStep
    /\ store' = [k \in {x \in DOMAIN store :
                            "expireAt" \in DOMAIN store[x] => store[x].expireAt > now'} |->
                    store[k]]
    /\ UNCHANGED <<queue, connected, proc, worker, req, pushOrder, popOrder, delivered,
                   written, writes, lostAck, api, uploads, files, late, deleted, codec, instance>>

\* One caller of the registry on one job and on the ids it never created, while
\* time passes.
NextContract ==
    \/ \E jobData \in JobDatas : written = {} /\ ApiCreateCall(jobData)
    \/ ApiCreateSet
    \/ ApiCreatePush
    \/ \E id \in Reqs, status \in {"processing", "completed", "failed"} :
          ApiUpdateCall(id, status)
    \/ ApiUpdateGet
    \/ ApiUpdateSet
    \/ \E id \in Reqs : ApiStatusCall(id)
    \/ ApiStatusGet
    \/ \E id \in Reqs : ApiDelete(id)
    \/ Tick

SpecContract == InitRegistry /\ [][NextContract]_vars

----------------------------------------------------------------------------
(* The isConnected() guards of JobService: every method called directly while
   the flag of the process goes down and up *)

\* getJobStatus(id) is called: it throws at once when the flag is false, else
\* it awaits redisService.get.
ApiGetCall(id) ==
    /\ api.pc = "idle"
    /\ api' = IF connected[ApiProc]
              THEN [NoCall EXCEPT !.pc = "job_get", !.id = id]
              ELSE [NoCall EXCEPT !.threw = "Redis not connected - cannot get job status"]
    /\ UNCHANGED <<store, queue, connected, proc, worker, req, pushOrder, popOrder,
                   delivered, written, writes, lostAck, uploads, files, late, now, deleted, codec, instance>>

\* The get answers: getJobStatus returns null, or the job.
ApiGetAnswer ==
    /\ api.pc = "job_get"
    /\ api' = IF JobKey(api.id) \notin DOMAIN store
              THEN [NoCall EXCEPT !.id = api.id, !.answer = "null"]
              ELSE [NoCall EXCEPT !.id = api.id, !.answer = "job",
                                  !.pending = RedisGet(store, JobKey(api.id))]
    /\ UNCHANGED <<store, queue, connected, proc, worker, req, pushOrder, popOrder,
                   delivered, written, writes, lostAck, uploads, files, late, now, deleted, codec, instance>>

\* getNextJob() is called: it throws at once when the flag is false, else it
\* awaits redisService.brpop.
ApiNextCall ==
    /\ api.pc = "idle"
    /\ api' = IF connected[ApiProc]
              THEN [NoCall EXCEPT !.pc = "next_pop"]
              ELSE [NoCall EXCEPT !.threw = "Redis not connected - cannot get next job"]
    /\ UNCHANGED <<store, queue, connected, proc, worker, req, pushOrder, popOrder,
                   delivered, written, writes, lostAck, uploads, files, late, now, deleted, codec, instance>>

\* brpop answers: null on an empty list, else the tail entry, and getNextJob
\* awaits getJobStatus(jobId).
ApiNextPop ==
    /\ api.pc = "next_pop"
    /\ IF queue = <<>>
       THEN /\ api' = [NoCall EXCEPT !.answer = "null"]
            /\ UNCHANGED <<queue, popOrder>>
       ELSE /\ queue' = BrpopRest(queue)
            /\ popOrder' = Append(popOrder, BrpopElement(queue))
            /\ api' = [NoCall EXCEPT !.pc = "next_get", !.id = BrpopElement(queue).jobId]
    /\ UNCHANGED <<store, connected, proc, worker, req, pushOrder,
                   delivered, written, writes, lostAck, uploads, files, late, now, deleted, codec, instance>>

\* The get of getNextJob answers: no record, return null; else return the job.
ApiNextGet ==
    /\ api.pc = "next_get"
    /\ api' = IF JobKey(api.id) \notin DOMAIN store
              THEN [NoCall EXCEPT !.id = api.id, !.answer = "null"]
              ELSE [NoCall EXCEPT !.id = api.id, !.answer = "job",
                                  !.pending = RedisGet(store, JobKey(api.id))]
    /\ UNCHANGED <<store, queue, connected, proc, worker, req, pushOrder, popOrder,
                   delivered, written, writes, lostAck, uploads, files, late, now, deleted, codec, instance>>

\* The flag goes down and up between the calls of the caller.
NextGuards ==
    \/ ApiCreateCall(HandlerJobData)
    \/ ApiCreateSet
    \/ ApiCreatePush
    \/ \E id \in Reqs : ApiUpdateCall(id, "processing")
    \/ ApiUpdateGet
    \/ ApiUpdateSet
    \/ \E id \in Reqs : ApiGetCall(id)
    \/ ApiGetAnswer
    \/ ApiNextCall
    \/ ApiNextPop
    \/ ApiNextGet
    \/ \E id \in Reqs : ApiDelete(id)
    \/ api.pc = "idle" /\ Disconnect(ApiProc)
    \/ Reconnect(ApiProc)

SpecGuards == InitRegistry /\ [][NextGuards]_vars

----------------------------------------------------------------------------
(* ConversionWorker.start() and stop() called in any order on one instance,
   the store connected *)

\* Number of loops looked at.
MaxLoops == 4

\* Where a loop is when it comes back to `while (this.isRunning)`.
InstanceLoopHead(isRunning) == IF isRunning THEN "pop" ELSE "ended"

\* start(): returns at once when isRunning is set; else sets it and runs the
\* loop to its first await, the pop of getNextJob.
StartCall ==
    /\ instance.isRunning \/ Len(instance.loops) < MaxLoops
    /\ instance' = IF instance.isRunning THEN instance
                   ELSE [isRunning |-> TRUE, loops |-> Append(instance.loops, "pop")]
    /\ UNCHANGED <<store, queue, connected, proc, worker, req, pushOrder, popOrder, delivered,
                   written, writes, lostAck, api, uploads, files, late, now, deleted, codec>>

\* stop(): clears isRunning.
StopCall ==
    /\ instance' = [instance EXCEPT !.isRunning = FALSE]
    /\ UNCHANGED <<store, queue, connected, proc, worker, req, pushOrder, popOrder, delivered,
                   written, writes, lostAck, api, uploads, files, late, now, deleted, codec>>

\* getNextJob of loop i returns: a job, and the loop awaits processJob; or null
\* (or it throws), and the loop is at its head.
LoopNextJob(i) ==
    /\ instance.loops[i] = "pop"
    /\ \E job \in BOOLEAN :
          instance' = [instance EXCEPT !.loops[i] =
                          IF job THEN "job" ELSE InstanceLoopHead(instance.isRunning)]
    /\ UNCHANGED <<store, queue, connected, proc, worker, req, pushOrder, popOrder, delivered,
                   written, writes, lostAck, api, uploads, files, late, now, deleted, codec>>

\* processJob of loop i returns or throws: the loop is at its head.
LoopJobEnds(i) ==
    /\ instance.loops[i] = "job"
    /\ instance' = [instance EXCEPT !.loops[i] = InstanceLoopHead(instance.isRunning)]
    /\ UNCHANGED <<store, queue, connected, proc, worker, req, pushOrder, popOrder, delivered,
                   written, writes, lostAck, api, uploads, files, late, now, deleted, codec>>

NextStartStop ==
    \/ StartCall
    \/ StopCall
    \/ \E i \in 1..MaxLoops : i <= Len(instance.loops) /\ LoopNextJob(i)
    \/ \E i \in 1..MaxLoops : i <= Len(instance.loops) /\ LoopJobEnds(i)

SpecStartStop == Init /\ [][NextStartStop]_vars

----------------------------------------------------------------------------
(* deleteJob next to a running worker *)

\* deleteJob is called with the id of a job whose createJob returned.
NextDelete ==
    \/ BootOk(ApiProc)
    \/ \E r \in Reqs : Convert(r, ApiProc)
    \/ \E r \in Reqs : CreateSet(r)
    \/ \E r \in Reqs : CreatePush(r)
    \/ Brpop(ApiProc)
    \/ Fetch(ApiProc)
    \/ UpdateGet(ApiProc)
    \/ UpdateSet(ApiProc)
    \/ Stage(ApiProc)
    \/ \E id \in Reqs : req[id].pc = "200" /\ ApiDelete(id)

SpecDelete == Init /\ [][NextDelete]_vars

----------------------------------------------------------------------------
(* The payload of one job as bytes: upload, job record, worker, results *)

\* An uploaded file and the bytes the encoder gives for it (the thumbnail; the
\* full-size variant is longer), any bytes.
InitCodec ==
    /\ store = <<>>
    /\ queue = <<>>
    /\ connected = [p \in Procs |-> FALSE]
    /\ proc = [p \in Procs |-> "init"]
    /\ worker = [p \in Procs |-> InitWorker]
    /\ req = [r \in Reqs |-> NoReq]
    /\ pushOrder = <<>>
    /\ popOrder = <<>>
    /\ delivered = [p \in Procs |-> <<>>]
    /\ written = {}
    /\ writes = [r \in Reqs |-> 0]
    /\ lostAck = {}
    /\ api = NoCall
    /\ uploads = [r \in Reqs |-> FullMetadata]
    /\ files = [p \in Procs |-> <<>>]
    /\ late = [p \in Procs |-> {}]
    /\ now = 0
    /\ deleted = {}
    /\ \E f \in Buffers(MaxBytes), a \in Buffers(MaxBytes) :
          codec = [pc |-> "upload", fileBuffer |-> f, avif |-> a]
    /\ instance = NoInstance

\* POST /convert: imageData is req.file.buffer.toString('base64'); the job
\* record goes through JSON to the store and back to the worker.
CodecConvert ==
    /\ codec.pc = "upload"
    /\ codec' = [pc |-> "job", fileBuffer |-> codec.fileBuffer, avif |-> codec.avif,
                 job |-> JSONparse(JSONstringify([imageData |-> ToBase64(codec.fileBuffer)]))]
    /\ UNCHANGED <<store, queue, connected, proc, worker, req, pushOrder, popOrder, delivered,
                   written, writes, lostAck, api, uploads, files, late, now, deleted, instance>>

\* processJob: inputBuffer = Buffer.from(job.imageData, 'base64').
CodecInput ==
    /\ codec.pc = "job"
    /\ codec' = [pc |-> "input", fileBuffer |-> codec.fileBuffer, avif |-> codec.avif,
                 job |-> codec.job, inputBuffer |-> FromBase64(codec.job.imageData)]
    /\ UNCHANGED <<store, queue, connected, proc, worker, req, pushOrder, popOrder, delivered,
                   written, writes, lostAck, api, uploads, files, late, now, deleted, instance>>

\* processJob: the final buffers are read back and the results are built; the
\* record goes through JSON to the store.
CodecResults ==
    /\ codec.pc = "input"
    /\ codec' = [pc |-> "results", fileBuffer |-> codec.fileBuffer, avif |-> codec.avif,
                 job |-> codec.job, inputBuffer |-> codec.inputBuffer,
                 results |-> JSONparse(JSONstringify(
                                ResultBytes(codec.inputBuffer, codec.avif,
                                            codec.avif \o codec.inputBuffer)))]
    /\ UNCHANGED <<store, queue, connected, proc, worker, req, pushOrder, popOrder, delivered,
                   written, writes, lostAck, api, uploads, files, late, now, deleted, instance>>

NextCodec == CodecConvert \/ CodecInput \/ CodecResults

SpecCodec == InitCodec /\ [][NextCodec]_vars

----------------------------------------------------------------------------
(* The claims *)

HasIn(st, id) == JobKey(id) \in DOMAIN st
RecIn(st, id) == RedisGet(st, JobKey(id))
Has(id) == HasIn(store, id)
Rec(id) == RecIn(store, id)

Terminal(status) == status \in {"completed", "failed"}

LegalChange(a, b) ==
    <<a, b>> \in {<<"queued", "processing">>, <<"processing", "completed">>,
                  <<"processing", "failed">>}

\* The value of a field of a record, or nothing when the record has no such field.
Field(rec, k) == IF k \in DOMAIN rec THEN <<rec[k]>> ELSE <<>>

StatusSteps ==
    \A id \in Reqs :
        (HasIn(store, id) /\ HasIn(store', id)) =>
            \/ RecIn(store', id).status = RecIn(store, id).status
            \/ LegalChange(RecIn(store, id).status, RecIn(store', id).status)

WritesOfStatus(status) ==
    CASE status = "queued" -> 0
      [] status = "processing" -> 1
      [] OTHER -> 2

WritesMatchStatus == \A id \in Reqs : Has(id) => writes[id] = WritesOfStatus(Rec(id).status)

\* C1: the status of a stored record changes only queued->processing,
\* processing->completed, processing->failed, and the worker's writes are the
\* processing write and then one terminal write (a queued record has had none,
\* a processing record one, a terminal record two).
C1_StatusTransitions == []WritesMatchStatus /\ [][StatusSteps]_vars

C1_Witness ==
    \E a, b \in Reqs :
        /\ Has(a) /\ Rec(a).status = "completed" /\ writes[a] = 2
        /\ Has(b) /\ Rec(b).status = "processing" /\ writes[b] = 1
        /\ \E p \in Procs : ~connected[p]

\* C2: a completed record has results and no error, a failed record has an
\* error and no results, a queued or processing record has neither.
C2_ResultsXorError ==
    \A id \in Reqs :
        Has(id) =>
            LET r == Rec(id) IN
            /\ r.status = "completed" => ("results" \in DOMAIN r /\ "error" \notin DOMAIN r)
            /\ r.status = "failed" => ("error" \in DOMAIN r /\ "results" \notin DOMAIN r)
            /\ r.status \in {"queued", "processing"} =>
                  ("results" \notin DOMAIN r /\ "error" \notin DOMAIN r)

C2_Witness ==
    \E a, b \in Reqs :
        /\ Has(a) /\ Rec(a).status = "completed" /\ "results" \in DOMAIN Rec(a)
        /\ Has(b) /\ Rec(b).status = "failed" /\ "error" \in DOMAIN Rec(b)

\* C3: once a stored record is completed or failed, no step changes its
\* status, results or error, also when the terminal write reported an error
\* to the worker.
C3_TerminalIsFinal ==
    [][\A id \in Reqs :
          (HasIn(store, id) /\ Terminal(RecIn(store, id).status) /\ HasIn(store', id)) =>
              \A k \in {"status", "results", "error"} :
                  Field(RecIn(store', id), k) = Field(RecIn(store, id), k)]_vars

\* A completed record whose write reported an error to the worker, the worker
\* having gone through its catch blocks.
C3_Witness ==
    \E id \in lostAck, p \in Procs :
        /\ Has(id) /\ Rec(id).status = "completed"
        /\ worker[p].pc = "spin"
        /\ \E i \in 1..Len(delivered[p]) : delivered[p][i].jobId = id


\* A worker is inside processJob.
InProcessJob(w) ==
    w.pc \in StagePcs \cup {"p_get", "p_set", "c_get", "c_set", "f_get", "f_set", "hung"}

StageErrors == {StageError(pc, o) : pc \in StagePcs, o \in {"fail", "timeout"}}

\* C6 (as claimed): when a stage of a job fails, the outer catch takes the
\* error (the failed write is next, with the stage's message, which names the
\* metadata for an extraction failure), and processJob ends only by returning
\* after the store has the record as failed with that message.
C6_StageFailureRecorded ==
    [][\A p \in Procs :
          LET w == worker[p]
              w2 == worker'[p]
          IN  /\ (w.pc \in StagePcs \ {"wr_full"} /\ w2.pc \notin StagePcs \cup {"dead", "hung"}) =>
                    /\ w2.pc = "f_get"
                    /\ w2.err \in StageErrors \ {""}
                    /\ w.pc = "exif_read" => w2.err = "Metadata extraction failed: E"
              /\ (w.pc \in {"f_get", "f_set"} /\ w.err \in StageErrors
                    /\ ~InProcessJob(w2) /\ w2.pc # "dead") =>
                    /\ w.pc = "f_set"
                    /\ connected'[p]
                    /\ HasIn(store', w.jobId)
                    /\ RecIn(store', w.jobId).status = "failed"
                    /\ RecIn(store', w.jobId).error = w.err]_vars

\* C7 (as claimed): whenever the running loop comes back to its head, after an
\* error of getNextJob or processJob as after a return, its next await is the
\* pop.
C7_LoopPopsAgain ==
    [][\A p \in Procs :
          (/\ worker[p].pc \in StorePcs \cup StagePcs
           /\ ~InProcessJob(worker'[p])
           /\ worker'[p].pc \notin {"fetch", "dead", "stopped"}) =>
              worker'[p].pc = "brpop"]_vars

DeliveredTo(p) == {delivered[p][i] : i \in 1..Len(delivered[p])}
Queued == {JSONparse(queue[i]) : i \in 1..Len(queue)}
Pushed == {pushOrder[i] : i \in 1..Len(pushOrder)}
Popped == {popOrder[i] : i \in 1..Len(popOrder)}

NoDoubleDelivery ==
    /\ \A p, q \in Procs : p # q => DeliveredTo(p) \cap DeliveredTo(q) = {}
    /\ \A p \in Procs : Cardinality(DeliveredTo(p)) = Len(delivered[p])

\* Entries the store popped for a worker whose connection dropped, or whose
\* process ended, before the answer arrived.
PopsCut == Popped \ UNION {DeliveredTo(p) : p \in Procs}

FifoOrder ==
    /\ Len(popOrder) <= Len(pushOrder)
    /\ popOrder = SubSeq(pushOrder, 1, Len(popOrder))

QueueHoldsRest ==
    /\ Len(queue) = Len(pushOrder) - Len(popOrder)
    /\ \A i \in 1..Len(queue) : JSONparse(queue[i]) = pushOrder[Len(pushOrder) - i + 1]

EmptyPop ==
    \A p \in Procs :
        (worker[p].pc = "brpop" /\ queue = <<>> /\ proc'[p] = "up") =>
            (delivered'[p] = delivered[p] /\ worker'[p].pc # "fetch")

\* C9: entries are popped in the order their pushes were executed, a popped
\* entry is the pushed entry unchanged, and a pop on an empty queue returns
\* none.
C9_Fifo == [](FifoOrder /\ QueueHoldsRest) /\ [][EmptyPop]_vars

C9_Witness ==
    /\ Len(pushOrder) = 2
    /\ popOrder = <<[jobId |-> 1]>>
    /\ queue = <<JSONstringify([jobId |-> 2])>>
    /\ \E p \in Procs : worker[p].pc = "fetch" /\ worker[p].jobId = 1

\* C10: an id that is in the queue or was popped had its record stored before
\* its push.
C10_RecordBeforePush == \A e \in Pushed : e.jobId \in written

C10_Witness ==
    \E p \in Procs :
        /\ worker[p].pc = "fetch"
        /\ Has(worker[p].jobId)
        /\ Rec(worker[p].jobId).status = "queued"


\* C4 (as claimed): updateJobStatus on a record that is completed or failed, or
\* with a status that is no legal successor of the record's status, leaves the
\* stored status as it is.
C4_RegistryEnforces ==
    [][\A id \in Reqs :
          (/\ api.pc = "set" /\ api.id = id /\ api'.pc = "idle"
           /\ HasIn(store, id) /\ HasIn(store', id)
           /\ \/ Terminal(RecIn(store, id).status)
              \/ ~LegalChange(RecIn(store, id).status, api.updates.status)) =>
              RecIn(store', id).status = RecIn(store, id).status]_vars

\* C5: a job whose createJob returned is eventually completed or failed, while
\* a worker loop runs, the store stays connected, no record expires and every
\* call returns or fails.
C5_EventuallyTerminal ==
    \A r \in Reqs :
        (req[r].pc = "200" /\ \E p \in Procs : worker[p].pc # "idle")
            ~> (Has(r) /\ Terminal(Rec(r).status))

C5_Witness ==
    /\ \A r \in Reqs : req[r].pc = "200" /\ Has(r)
    /\ Rec(1).status = "failed"
    /\ Rec(2).status = "completed"
    /\ \E p \in Procs : worker[p].pc = "idle"


----------------------------------------------------------------------------

QueuedIds == {JSONparse(queue[i]).jobId : i \in 1..Len(queue)}

\* The entries are envelopes of the id alone, and no id is pushed, queued or
\* popped twice.
PushedOnce ==
    /\ \A i \in 1..Len(pushOrder) : DOMAIN pushOrder[i] = {"jobId"}
    /\ \A i \in 1..Len(queue) : DOMAIN JSONparse(queue[i]) = {"jobId"}
    /\ Cardinality(Pushed) = Len(pushOrder)
    /\ Cardinality(QueuedIds) = Len(queue)
    /\ Cardinality(Popped) = Len(popOrder)

\* A push is the lpush of the createJob call that allocated the id.
PushedByCreate ==
    \A i \in 1..Len(pushOrder') :
        i > Len(pushOrder) => req[pushOrder'[i].jobId].pc = "push"

\* A worker starts the pipeline of a job (its first stage) on the answer of the
\* first worker write the store executed for that job.
PipelineOnce ==
    \A p \in Procs :
        (worker[p].pc # "exif_read" /\ worker'[p].pc = "exif_read") =>
            /\ worker[p].pc = "p_set"
            /\ writes[worker[p].jobId] = 0
            /\ writes'[worker[p].jobId] = 1

\* C11: each id is pushed once, by its createJob, in an entry that carries only
\* the id; nothing pushes an id again, so a job runs through the pipeline at
\* most once.
C11_PushedOnce == []PushedOnce /\ [][PushedByCreate /\ PipelineOnce]_vars

\* A job failed and came off the queue; the queue stays empty and the worker
\* polls.
C11_Witness ==
    \E id \in Reqs, p \in Procs :
        /\ Has(id) /\ Rec(id).status = "failed"
        /\ queue = <<>>
        /\ Len(pushOrder) = 1
        /\ worker[p].pc = "brpop"
        /\ delivered[p] = <<[jobId |-> id]>>

\* C12: updateJobStatus on an id with no record throws not found and leaves the
\* store as it is.  While the call awaits its get, nothing but the createJob
\* that allocates the id stores a record under it (an id is a fresh uuid: no
\* caller has it before its createJob returned).
C12_UpdateNotFound ==
    [][(api.pc = "get" /\ ~HasIn(store, api.id)) =>
          /\ (api'.pc = "get" /\ HasIn(store', api.id)) => req[api.id].pc = "set"
          /\ api' # api =>
                /\ api'.pc = "idle"
                /\ api'.threw = "Failed to update job status: Job not found"
                /\ store' = store]_vars

\* The call threw not found on a record that had been stored and is gone.
C12_Witness ==
    /\ api.pc = "idle"
    /\ api.threw = "Failed to update job status: Job not found"
    /\ \E id \in written : ~Has(id)

\* C13 (as claimed): after createJob threw (the handler answered 500), the
\* store has no record under the id and the queue has never had its entry.
C13_FailedCreateLeavesNothing ==
    \A r \in Reqs :
        req[r].pc = "500" => (~Has(r) /\ [jobId |-> r] \notin Pushed)

\* A job that is not lost: a queued record has its id in the queue or is held
\* by a worker between its pop and its processing write; a processing record
\* is held by a worker inside processJob.
HeldQueued(id) ==
    \E p \in Procs : worker[p].jobId = id /\ worker[p].pc \in {"fetch", "p_get", "p_set"}

HeldProcessing(id) ==
    \E p \in Procs :
        /\ worker[p].jobId = id
        /\ worker[p].pc \in StagePcs \cup {"p_set", "c_get", "c_set", "f_get", "f_set"}

NotLost(id) ==
    /\ Has(id)
    /\ Rec(id).status \in {"queued", "processing"}
    /\ Rec(id).status = "queued" => (id \in QueuedIds \/ HeldQueued(id))
    /\ Rec(id).status = "processing" => HeldProcessing(id)

\* C14 (as claimed): when the store connection of a process drops, every job
\* that was queued or held before is, unless its record reached a terminal
\* status, queued or held after.
C14_NoJobLost ==
    [][\A p \in Procs :
          (connected[p] /\ ~connected'[p] /\ proc'[p] = "up") =>
              \A id \in Reqs :
                  (NotLost(id) /\ HasIn(store', id)
                   /\ ~Terminal(RecIn(store', id).status)) => NotLost(id)']_vars

\* C15 (as claimed): when processJob returns or throws, none of the job's three
\* temp files exists.
C15_NoTempFilesLeft ==
    [][\A p \in Procs :
          (InProcessJob(worker[p]) /\ ~InProcessJob(worker'[p]) /\ proc'[p] = "up") =>
              TempFiles(worker[p].jobId) \cap DOMAIN files'[p] = {}]_vars

\* C16: a results field has both variants, each with data, size and filename,
\* and a failed record has no results.
C16_AllOrNothing ==
    \A id \in Reqs :
        Has(id) =>
            LET r == Rec(id) IN
            /\ "results" \in DOMAIN r =>
                  /\ {"thumbnail", "fullSize"} \subseteq DOMAIN r.results
                  /\ \A v \in {"thumbnail", "fullSize"} :
                        {"data", "size", "filename"} \subseteq DOMAIN r.results[v]
            /\ r.status = "failed" => "results" \notin DOMAIN r

C16_Witness ==
    \E a, b \in Reqs :
        /\ Has(a) /\ Rec(a).status = "completed"
        /\ DOMAIN Rec(a).results.thumbnail = DOMAIN Rec(a).results.fullSize
        /\ Has(b) /\ Rec(b).status = "failed" /\ Rec(b).error = "E"

\* C17 (as claimed): no worker waits on a stage that nothing bounds.
C17_StagesBounded == \A p \in Procs : worker[p].pc # "hung"

VariantCalls == {"Thumbnail conversion", "Full-size conversion"}

C19_RestartPolls ==
    [][\A p \in Procs :
          (worker[p].pc = "crashed" /\ worker'[p].pc # "crashed" /\ proc'[p] = "up") =>
              worker'[p].pc \in {"brpop", "spin"}]_vars

\* The keys of a metadata set the pipeline may write.
PreservedKeysOk(tags) ==
    /\ {"ImageWidth", "ImageHeight"} \subseteq DOMAIN tags
    /\ DOMAIN tags \subseteq {"ImageWidth", "ImageHeight"} \cup TimestampKeys \cup GPSKeys
    /\ Cardinality(DOMAIN tags \cap TimestampKeys) <= 1
    /\ DOMAIN tags \cap GPSKeys \in {{}, GPSKeys}
    /\ tags.ImageWidth = Decoded.width
    /\ tags.ImageHeight = Decoded.height

\* C20: the tags written to the two variants are the same set, with the keys
\* ImageWidth and ImageHeight from the decode step, at most one timestamp key
\* and all four GPS keys or none, and no other key of the original.
C20_PreservedMetadata ==
    /\ \A p \in Procs :
          (worker[p].pc = "wr_full" /\ TempThumb(worker[p].jobId) \in DOMAIN files[p]) =>
              PreservedKeysOk(files[p][TempThumb(worker[p].jobId)])
    /\ \A x \in UNION {late[p] : p \in Procs} : PreservedKeysOk(x.tags)
    /\ \A id \in Reqs :
          (Has(id) /\ Rec(id).status = "completed") =>
              LET res == Rec(id).results IN
              /\ PreservedKeysOk(res.thumbnail.data)
              /\ DOMAIN res.fullSize.data = DOMAIN res.thumbnail.data
              /\ \A k \in DOMAIN res.thumbnail.data :
                    res.fullSize.data[k] = res.thumbnail.data[k]

\* A completed job whose original had a maker tag, a capture time of 0 next to
\* a DateTime, and a position without a longitude reference.
C20_Witness ==
    /\ Has(1) /\ Rec(1).status = "completed"
    /\ "Make" \in DOMAIN uploads[1]
    /\ "GPSLatitudeRef" \notin DOMAIN uploads[1]
    /\ Prop(uploads[1], "DateTimeOriginal") = "zero"
    /\ DOMAIN Rec(1).results.thumbnail.data =
          {"ImageWidth", "ImageHeight", "DateTime"} \cup GPSKeys

----------------------------------------------------------------------------

LacksPosition(m) == "GPSLatitude" \notin DOMAIN m \/ "GPSLongitude" \notin DOMAIN m

\* C21: when the original lacks GPSLatitude or GPSLongitude, no GPS key is
\* written to either variant (the temp files, the metadata copies still
\* running, the data of the results) and preservedMetadata.hasGPS is false.
C21_NoPartialGps ==
    /\ \A p \in Procs : \A f \in DOMAIN files[p] :
          (f[2] \in {"thumb", "full"} /\ LacksPosition(uploads[f[1]])) =>
              DOMAIN files[p][f] \cap GPSKeys = {}
    /\ \A x \in UNION {late[p] : p \in Procs} :
          LacksPosition(uploads[x.file[1]]) => DOMAIN x.tags \cap GPSKeys = {}
    /\ \A id \in Reqs :
          (Has(id) /\ Rec(id).status = "completed" /\ LacksPosition(uploads[id])) =>
              LET res == Rec(id).results IN
              /\ DOMAIN res.thumbnail.data \cap GPSKeys = {}
              /\ DOMAIN res.fullSize.data \cap GPSKeys = {}
              /\ res.preservedMetadata.hasGPS = FALSE

\* A completed job whose original had a latitude with its reference and no
\* longitude.
C21_Witness ==
    /\ Has(1) /\ Rec(1).status = "completed"
    /\ {"GPSLatitude", "GPSLatitudeRef"} \subseteq DOMAIN uploads[1]
    /\ uploads[1].GPSLatitude = "v"
    /\ "GPSLongitude" \notin DOMAIN uploads[1]
    /\ Rec(1).results.preservedMetadata.hasGPS = FALSE

\* C22: in the results, the size of each variant is the number of bytes its
\* data decodes to (the bytes of its final buffer), and originalSize is the
\* number of bytes the job's imageData decodes to (the bytes of the upload).
C22_SizesMatchData ==
    codec.pc = "results" =>
        /\ \A v \in {"thumbnail", "fullSize"} :
              codec.results[v].size = Len(FromBase64(codec.results[v].data))
        /\ FromBase64(codec.results.thumbnail.data) = codec.avif
        /\ codec.results.originalSize = Len(FromBase64(codec.job.imageData))
        /\ FromBase64(codec.job.imageData) = codec.fileBuffer

\* Results whose thumbnail ends in a rest of one byte and whose full-size
\* variant in a rest of two.
C22_Witness ==
    /\ codec.pc = "results"
    /\ Len(codec.avif) = 4
    /\ codec.results.thumbnail.data.padding = 2
    /\ codec.results.fullSize.data.padding = 1
    /\ codec.results.originalSize = 1

\* C23 (as claimed): POST /convert is answered 400 or 503 with no record and
\* no queue entry of the request, or it is answered success with the record
\* stored and the entry pushed; it has no other answer.
C23_ConvertAnswers ==
    \A r \in Reqs :
        /\ req[r].pc \in {"none", "set", "push", "dead", "400", "503", "200"}
        /\ req[r].pc \in {"400", "503"} => (r \notin written /\ [jobId |-> r] \notin Pushed)
        /\ req[r].pc = "200" => (r \in written /\ [jobId |-> r] \in Pushed)

\* C24: when the handler of GET /status/:jobId gets the answer of its get and
\* the id has no record, getJobStatus returns null, nothing is thrown, the
\* answer is 404 and the store is as before, whatever happened to the id
\* before; with a record the answer is 200.
C24_AbsentIsNotFound ==
    [][(api.pc = "status" /\ api' # api) =>
          IF ~HasIn(store, api.id)
          THEN /\ api' = [NoCall EXCEPT !.id = api.id, !.answer = "404"]
               /\ store' = store
          ELSE api'.answer = "200"]_vars

\* 404 for an id whose record was stored and has expired.
C24_Witness ==
    /\ api.pc = "idle" /\ api.answer = "404" /\ api.threw = ""
    /\ api.id \in written \ deleted
    /\ ~Has(api.id)

\* C25 (as claimed): createJob returns a record with the id it allocated and
\* status queued, and the record under that id's key is the returned one.
C25_CreateRoundTrip ==
    [][(api.pc = "create_push" /\ api'.pc = "idle") =>
          /\ api'.answer = "job"
          /\ api'.pending.id = api.id
          /\ api'.pending.status = "queued"
          /\ HasIn(store', api.id) => RecIn(store', api.id) = api'.pending]_vars

\* rec is prev overlaid with delta and with an updatedAt of its own.
Overlay(prev, delta, rec) ==
    /\ DOMAIN rec = (DOMAIN prev) \cup (DOMAIN delta) \cup {"updatedAt"}
    /\ \A k \in (DOMAIN delta) \ {"updatedAt"} : rec[k] = delta[k]
    /\ \A k \in (DOMAIN prev) \ ((DOMAIN delta) \cup {"updatedAt"}) : rec[k] = prev[k]
    /\ rec.id = prev.id
    /\ rec.createdAt = prev.createdAt

C27_WritesSetExpiry ==
    /\ [](\A k \in DOMAIN store : "expireAt" \in DOMAIN store[k] /\ store[k].expireAt > now)
    /\ [][\A id \in Reqs :
             LET k == JobKey(id) IN
             /\ (k \in DOMAIN store' /\ (k \notin DOMAIN store \/ store'[k] # store[k])) =>
                    (now' = now /\ store'[k].expireAt = now + TTL)
             /\ (k \in DOMAIN store /\ k \notin DOMAIN store' /\ now' # now) =>
                    /\ store[k].expireAt <= now'
                    /\ now' >= RecIn(store, id).updatedAt + TTL]_vars

\* A record that is alive 24 hours after it was created and later, an update
\* having set its expiry again.
C27_Witness ==
    /\ Has(1)
    /\ now >= Rec(1).createdAt + TTL
    /\ store[JobKey(1)].expireAt = Rec(1).updatedAt + TTL
    /\ Rec(1).updatedAt > Rec(1).createdAt

\* C28: a stored record has a processingTime exactly when its status is
\* completed or failed.
C28_ProcessingTimeAtEnd ==
    \A id \in Reqs :
        Has(id) => (Terminal(Rec(id).status) <=> "processingTime" \in DOMAIN Rec(id))

\* A failed record, a completed record in flight to the store, and the record
\* of that job still processing.
C28_Witness ==
    \E a, b \in Reqs, p \in Procs :
        /\ Has(a) /\ Rec(a).status = "failed" /\ "processingTime" \in DOMAIN Rec(a)
        /\ Has(b) /\ Rec(b).status = "processing" /\ "processingTime" \notin DOMAIN Rec(b)
        /\ worker[p].pc = "c_set" /\ worker[p].jobId = b
        /\ "processingTime" \in DOMAIN worker[p].pending

\* C29 (as claimed): after deleteJob(id) returned, the store has no record
\* under the id.
C29_DeletedStaysGone == \A id \in deleted : ~Has(id)

\* The fields of the stored record that the write in flight does not set are
\* in the record the worker is about to write, unchanged.
NoWriteLost(w) ==
    (w.pc \in {"p_set", "c_set", "f_set"} /\ Has(w.jobId)) =>
        \A k \in (DOMAIN Rec(w.jobId)) \ ((DOMAIN UpdatesAt(w)) \cup {"updatedAt"}) :
            k \in DOMAIN w.pending /\ w.pending[k] = Rec(w.jobId)[k]

\* C30: no two workers are inside processJob for the same id, and a worker's
\* write in flight was built from the record the store holds: it overwrites
\* no write made since its read.
C30_OneWorkerPerJob ==
    /\ \A p, q \in Procs :
          (p # q /\ InProcessJob(worker[p]) /\ InProcessJob(worker[q])) =>
              worker[p].jobId # worker[q].jobId
    /\ \A p \in Procs : NoWriteLost(worker[p])

\* Two workers inside processJob at the same time, each with the terminal
\* write of its own job in flight.
C30_Witness ==
    \E p, q \in Procs :
        /\ worker[p].pc = "c_set"
        /\ worker[q].pc = "f_set"
        /\ worker[p].jobId # worker[q].jobId
        /\ Has(worker[p].jobId) /\ Has(worker[q].jobId)

----------------------------------------------------------------------------

\* C31: when the get of getNextJob finds no record under the popped id, the
\* worker's next await is the pop again, and the step writes nothing: store,
\* queue, write counts and temp files are as before (the entry came off the
\* queue with the pop and is not pushed again).
C31_MissingRecordSkipped ==
    [][\A p \in Procs :
          (/\ worker[p].pc = "fetch" /\ ~HasIn(store, worker[p].jobId)
           /\ worker'[p] # worker[p] /\ proc'[p] = "up" /\ connected'[p]) =>
              /\ worker'[p].pc = "brpop"
              /\ worker'[p].jobId = 0
              /\ store' = store
              /\ queue' = queue
              /\ pushOrder' = pushOrder
              /\ writes' = writes
              /\ written' = written
              /\ files' = files]_vars

\* A worker polls again after it popped the entry of a record that had
\* expired; no worker has written to the id.
C31_Witness ==
    \E p \in Procs, id \in written :
        /\ worker[p].pc = "brpop" /\ connected[p]
        /\ delivered[p] = <<[jobId |-> id]>>
        /\ ~Has(id)
        /\ writes[id] = 0
        /\ lostAck = {}
        /\ \A q \in Procs : proc[q] # "exited"

\* The timestamp keys of a tag set, and the first timestamp key of the original
\* that is there / that has a value other than 0 or the empty string.
TimeKeysOf(tags) == (DOMAIN tags) \cap TimestampKeys

FirstPresent(m) ==
    IF "DateTimeOriginal" \in DOMAIN m THEN {"DateTimeOriginal"}
    ELSE IF "DateTime" \in DOMAIN m THEN {"DateTime"}
    ELSE IF "CreateDate" \in DOMAIN m THEN {"CreateDate"}
    ELSE {}

FirstSet(m) ==
    IF Truthy(Prop(m, "DateTimeOriginal")) THEN {"DateTimeOriginal"}
    ELSE IF Truthy(Prop(m, "DateTime")) THEN {"DateTime"}
    ELSE IF Truthy(Prop(m, "CreateDate")) THEN {"CreateDate"}
    ELSE {}

\* C32 (as claimed): the timestamp key of the variants is the first key of
\* DateTimeOriginal, DateTime, CreateDate the original has.
C32_FirstPresentTimestamp ==
    \A id \in Reqs :
        (Has(id) /\ Rec(id).status = "completed") =>
            LET res == Rec(id).results IN
            /\ TimeKeysOf(res.thumbnail.data) = FirstPresent(uploads[id])
            /\ TimeKeysOf(res.fullSize.data) = FirstPresent(uploads[id])

\* C32 (amended): the timestamp key of the variants is the first key of
\* DateTimeOriginal, DateTime, CreateDate whose value in the original is set
\* (not 0, not empty), with that value; none when no such key; hasTimestamp is
\* true exactly when a timestamp key was written.
C32_FirstSetTimestamp ==
    /\ \A x \in UNION {late[p] : p \in Procs} :
          TimeKeysOf(x.tags) = FirstSet(uploads[x.file[1]])
    /\ \A id \in Reqs :
          (Has(id) /\ Rec(id).status = "completed") =>
              LET res == Rec(id).results IN
              /\ TimeKeysOf(res.thumbnail.data) = FirstSet(uploads[id])
              /\ TimeKeysOf(res.fullSize.data) = FirstSet(uploads[id])
              /\ \A k \in TimeKeysOf(res.thumbnail.data) :
                    /\ res.thumbnail.data[k] = uploads[id][k]
                    /\ res.fullSize.data[k] = uploads[id][k]
              /\ res.preservedMetadata.hasTimestamp = (TimeKeysOf(res.thumbnail.data) # {})

\* A completed job whose original had DateTimeOriginal and CreateDate, and one
\* reading: CreateDate was not written.
C32_Witness ==
    /\ Has(1) /\ Rec(1).status = "completed"
    /\ TimestampKeys \cap DOMAIN uploads[1] = {"DateTimeOriginal", "CreateDate"}
    /\ uploads[1].DateTimeOriginal = "v"
    /\ TimeKeysOf(Rec(1).results.fullSize.data) = {"DateTimeOriginal"}
    /\ Rec(1).results.preservedMetadata.hasTimestamp

\* C33 (as claimed): when the original has GPSLatitude and GPSLongitude, the
\* four GPS keys are in both variants and hasGPS is true.
C33_GpsWhateverTheValue ==
    \A id \in Reqs :
        (/\ Has(id) /\ Rec(id).status = "completed"
         /\ {"GPSLatitude", "GPSLongitude"} \subseteq DOMAIN uploads[id]) =>
            LET res == Rec(id).results IN
            /\ GPSKeys \subseteq DOMAIN res.thumbnail.data
            /\ GPSKeys \subseteq DOMAIN res.fullSize.data
            /\ res.preservedMetadata.hasGPS

\* The record of a job is processing and a worker that popped its entry is
\* dead.
Abandoned(id) ==
    /\ Has(id) /\ Rec(id).status = "processing"
    /\ \E p \in Procs : worker[p].pc = "dead" /\ [jobId |-> id] \in DeliveredTo(p)

\* C34: the record of a job whose worker died after the processing write and
\* before a terminal write is changed by no step until it is gone from the
\* store; its id is not in the queue and no worker has it.
C34_AbandonedStaysProcessing ==
    /\ [](\A id \in Reqs :
            Abandoned(id) =>
                /\ id \notin QueuedIds
                /\ \A p \in Procs : worker[p].jobId # id)
    /\ [][\A id \in Reqs :
             (Abandoned(id) /\ HasIn(store', id)) =>
                 /\ store'[JobKey(id)] = store[JobKey(id)]
                 /\ pushOrder' = pushOrder \/ pushOrder'[Len(pushOrder')].jobId # id]_vars

\* A worker died with a job processing; the other worker polls an empty queue.
C34_Witness ==
    \E p, q \in Procs, id \in Reqs :
        /\ Abandoned(id)
        /\ worker[p].pc = "dead" /\ delivered[p] = <<[jobId |-> id]>>
        /\ worker[q].pc = "brpop" /\ connected[q]
        /\ queue = <<>>
        /\ writes[id] = 1

\* C35 (as claimed): no worker is at the head of its loop again without having
\* awaited the pop or a store command.
C35_NoBusyWait == \A p \in Procs : worker[p].pc # "spin"

GuardErrors ==
    {"Redis not connected - cannot create job",
     "Redis not connected - cannot get job status",
     "Redis not connected - cannot update job status",
     "Redis not connected - cannot get next job",
     "Redis not connected - cannot delete job"}

\* C36: a call of createJob, getJobStatus, updateJobStatus, getNextJob or
\* deleteJob made while the flag is false throws its not-connected error at
\* once, and store and queue are as before.
C36_GuardsThrow ==
    [][(api.pc = "idle" /\ ~connected[ApiProc] /\ api' # api) =>
          /\ api'.pc = "idle"
          /\ api'.threw \in GuardErrors
          /\ api'.answer = ""
          /\ store' = store
          /\ queue' = queue
          /\ pushOrder' = pushOrder
          /\ popOrder' = popOrder
          /\ deleted' = deleted]_vars

\* deleteJob threw while the flag was false, a record stored and its entry
\* queued.
C36_Witness ==
    /\ ~connected[ApiProc]
    /\ api.threw = "Redis not connected - cannot delete job"
    /\ Has(1)
    /\ queue # <<>>

\* The loops of the instance that have not ended.
ActiveLoops == {i \in 1..Len(instance.loops) : instance.loops[i] # "ended"}

\* C37 (as claimed): at most one loop of the instance is active.
C37_OneLoop == Cardinality(ActiveLoops) <= 1

\* C38 (as claimed): when a process exits, the job its worker has with status
\* processing is completed or failed in the store.
C38_ShutdownFinishesJob ==
    [][\A p \in Procs :
          (proc[p] = "up" /\ proc'[p] = "exited") =>
              \A id \in Reqs :
                  (HasIn(store, id) /\ RecIn(store, id).status = "processing"
                   /\ worker[p].jobId = id) =>
                      (HasIn(store', id) /\ Terminal(RecIn(store', id).status))]_vars

\* C39: a process that has not connected has no worker loop, no flag and
\* handles no request; the step that brings it up is the one in which the
\* connection succeeded, and it starts the worker loop (its pop in flight)
\* before any request is handled; when the connection fails the process exits
\* with its worker never started, and an exited process handles no request.
C39_StartupOrder ==
    /\ [](\A p \in Procs :
            /\ proc[p] = "init" => (worker[p] = InitWorker /\ ~connected[p])
            /\ \A r \in Reqs : req[r].proc = p => (proc[p] = "up" /\ worker[p].pc # "idle")
            /\ worker[p].pc \notin {"idle", "dead"} => proc[p] = "up")
    /\ [][\A p \in Procs :
             /\ (proc[p] = "init" /\ proc'[p] = "up") =>
                    (connected'[p] /\ worker'[p].pc = "brpop" /\ worker'[p].isRunning)
             /\ (proc[p] = "init" /\ proc'[p] = "exited") =>
                    (worker'[p] = InitWorker /\ ~connected'[p])
             /\ \A r \in Reqs : (req[r].pc = "none" /\ req'[r].pc # "none") =>
                    \E q \in Procs : proc[q] = "up" /\ worker[q].pc \notin {"idle", "dead"}]_vars

\* One process exited on a failed connection, its worker never started; the
\* other connected, started its loop and answered a request.
C39_Witness ==
    \E p, q \in Procs :
        /\ proc[p] = "exited" /\ worker[p] = InitWorker
        /\ proc[q] = "up" /\ worker[q].pc = "brpop"
        /\ req[1].pc = "200"

====
